---- MODULE Spec2Model ----
(***************************************************************************)
(* The interactive viewport of the drawing-comparison viewer: the GPU      *)
(* (PixiJS) viewer's asynchronous initialisation, its wheel / drag / click *)
(* handlers, the zoom buttons and the minimap, next to the click handler   *)
(* and page-change effect of the direct (react-zoom-pan-pinch) viewer and  *)
(* the click handler of the tiled (OpenSeadragon) viewer.                  *)
(*                                                                         *)
(* JavaScript numbers are modelled as exact rationals <<n, d>> (d > 0, in  *)
(* lowest terms), so every formula of the code is computed as written and  *)
(* "equal within floating-point tolerance" becomes plain equality.         *)
(***************************************************************************)
EXTENDS Integers, Sequences, FiniteSets, TLC

\* ------------------------------------------------------------------------
\* Exact rational arithmetic
\* ------------------------------------------------------------------------
Abs(i) == IF i < 0 THEN -i ELSE i

RECURSIVE GCD(_, _)
GCD(a, b) == IF b = 0 THEN a ELSE GCD(b, a % b)

Norm(n, d) ==
    LET g == GCD(Abs(n), Abs(d))
        s == IF d < 0 THEN -1 ELSE 1
    IN  <<s * (n \div g), s * (d \div g)>>

R(i) == <<i, 1>>

QNeg(p) == <<-p[1], p[2]>>

QAdd(p, q) ==
    LET g == GCD(p[2], q[2])
    IN  Norm(p[1] * (q[2] \div g) + q[1] * (p[2] \div g), (p[2] \div g) * q[2])

QSub(p, q) == QAdd(p, QNeg(q))

QMul(p, q) ==
    LET g1 == GCD(Abs(p[1]), q[2])
        g2 == GCD(Abs(q[1]), p[2])
    IN  Norm((p[1] \div g1) * (q[1] \div g2), (p[2] \div g2) * (q[2] \div g1))

QInv(p) == IF p[1] < 0 THEN <<-p[2], -p[1]>> ELSE <<p[2], p[1]>>

QDiv(p, q) == QMul(p, QInv(q))

QLe(p, q) ==
    LET g == GCD(p[2], q[2])
    IN  p[1] * (q[2] \div g) <= q[1] * (p[2] \div g)

QLt(p, q) == ~QLe(q, p)

\* Math.min / Math.max
QMin(p, q) == IF QLe(p, q) THEN p ELSE q
QMax(p, q) == IF QLe(p, q) THEN q ELSE p

QFloor(p) == p[1] \div p[2]

QAbs(p) == <<Abs(p[1]), p[2]>>

\* Math.round: the nearest integer, halves rounded towards +infinity.
MathRound(p) == QFloor(QAdd(p, <<1, 2>>))

\* ------------------------------------------------------------------------
\* Program constants and the environment
\* ------------------------------------------------------------------------
HeaderH == 60                  \* the 60px header strip every formula subtracts
ClickThreshold == 5            \* Math.abs(e.global.x - dragStart.x) > 5
MinSize == 5                   \* Math.max(5, ...) in MiniMap.viewportStyle
MinScale == <<1, 10>>          \* Math.max(0.1, ...)
MaxScale == <<10, 1>>          \* Math.min(10, ...)
FitMargin == <<9, 10>>         \* ... * 0.9
WheelOut == <<9, 10>>          \* e.deltaY > 0 ? 0.9 : 1.1
WheelIn == <<11, 10>>
ZoomInStep == <<13, 10>>       \* mc.scale.x * 1.3
ZoomOutStep == <<7, 10>>       \* mc.scale.x * 0.7
DefaultAlpha == <<3, 5>>       \* sprite.alpha = 0.6

\* app.screen of the PIXI.Application (resizeTo the container): the browser
\* window, an input of the environment.
Screen == [width |-> 800, height |-> 660]

Keys == <<"red", "green", "blue">>
KeySet == {"red", "green", "blue"}

\* Bounds of the model.
MaxSteps == 2                  \* user input events per behaviour
MaxApps == 2                   \* PIXI.Application instances per behaviour
MaxPages == 1                  \* page changes per behaviour
MaxPanelSteps == 3             \* panel inputs per behaviour of the layer panel
MaxSessionSteps == 2           \* user input events per behaviour with page changes
MaxDragSteps == 3              \* pointer and wheel events per behaviour of one gesture
MaxFlowSteps == 4              \* uploads, page requests and resets per behaviour
MaxPageIndex == 2              \* total_pages - 1 of the compared documents

AppIds == 1..MaxApps
NoApp == 0

\* The pages a session can show: the size of the base image (content) and
\* data.scaling_factor.
\*   720x540   fits at scale 1, translate (40, 90)
\*   8000x6000 fits at scale 0.09, translate (40, 90)
Results == {[content |-> <<720, 540>>, sf |-> <<2, 1>>],
            [content |-> <<8000, 6000>>, sf |-> <<3, 2>>]}

\* Screen points of pointer and wheel events (canvas coordinates): a point,
\* and points 3.16px, 10px to the right and 10px below away from it.
Points == {<<440, 390>>, <<443, 391>>, <<450, 390>>, <<440, 400>>}

\* Screen points of a gesture: a point, a point 10px to the right and 6px
\* below it, and two points near the left and the right edge of the canvas.
DragPoints == {<<440, 390>>, <<450, 396>>, <<10, 390>>, <<790, 390>>}

\* e.deltaY of wheel events.
WheelDeltas == {-100, 100}

\* Minimap clicks, as MiniMap.handleClick passes them on: (x * 100, y * 100)
\* of the normalized click position.
MiniMapPoints == {<<0, 0>>, <<50, 50>>, <<100, 25>>}

\* {x: 0, y: 0, width: 100, height: 100}
DefaultBounds == [x |-> <<0, 1>>, y |-> <<0, 1>>, width |-> <<100, 1>>,
                  height |-> <<100, 1>>]

NoClick == [set |-> FALSE, screen |-> <<0, 0>>, original |-> <<0, 0>>]
UnitTransform == [scale |-> <<1, 1>>, x |-> <<0, 1>>, y |-> <<0, 1>>]
NoEvent == [type |-> "none", app |-> NoApp, p |-> <<0, 0>>, measured |-> FALSE,
            before |-> UnitTransform, deltaY |-> 0, wasDragging |-> FALSE]

\* The layer panel: opacity in percent, useState(60), and the values the
\* slider is moved to.
DefaultOpacity == 60
OpacityValues == {30, 60}
AllLayers == [k \in KeySet |-> TRUE]

\* App's error state: null, or the message of the rejected request.
NoError == "null"
ProcessingFailed == "Processing failed"

\* A key the response does not carry.
Absent == -1

\* sessionData = null.
NullSession ==
    [page |-> Absent, images |-> FALSE, content |-> <<0, 0>>, sf |-> <<1, 1>>,
     stats |-> Absent]

\* No page change has been requested.
NoRequest == [n |-> 0, page |-> Absent]

\* No layer has been switched off yet.
NoToggle == [key |-> "none", phase |-> "none", comp |-> <<>>, rest |-> <<>>]

VARIABLES
    strategy,        \* which viewer component renders the session
    mounted,         \* the viewer component is mounted (containerRef.current set)
    data,            \* the data prop: the current SessionResult
    pixiRef,         \* pixiRef.current
    apps,            \* every PIXI.Application created, with its initPixi task
    nextApp,         \* identity of the next Application
    zoomLevel,       \* useState(100)
    clickPos,        \* useState(null)
    isLoading,       \* useState(true)
    viewportBounds,  \* useState({x: 0, y: 0, width: 100, height: 100})
    transformState,  \* TransformWrapper state of the direct viewer
    imageLoaded,     \* useState(false) of the direct viewer
    viewportBoundsRef, \* viewportBoundsRef.current of the direct viewer
    miniMapBounds,   \* the viewportBounds prop of the direct viewer's last render
    overlayImgs,     \* the overlay <img> elements of the direct viewer
    probe,           \* inputs of the coordinate mapping compared across strategies
    measured,        \* the originalPoint each strategy computed for the probe
    pages,           \* page changes delivered so far
    steps,           \* user input events so far
    lastEvent,       \* the event handled last
    layers,          \* useState({red: true, green: true, blue: true})
    opacity,         \* useState(60)
    grayscaleMode,   \* useState(false)
    texture,         \* the source each base sprite displays
    texLoads,        \* texture loads of the grayscale effect in flight
    toggled,         \* the layer switched off last and the composition before
    error,           \* useState(null) of App: the error message
    step,            \* useState('upload') of App
    sessionData,     \* useState(null) of App: null or what the viewer gets as data
    requests,        \* the processPage calls of handlePageChange in flight
    requested        \* the page change requested last in this session

vars == <<strategy, mounted, data, pixiRef, apps, nextApp, zoomLevel, clickPos,
          isLoading, viewportBounds, transformState, imageLoaded,
          viewportBoundsRef, miniMapBounds, overlayImgs, probe,
          measured, pages, steps, lastEvent, layers, opacity, grayscaleMode,
          texture, texLoads, toggled, error, step, sessionData, requests,
          requested>>

\* ------------------------------------------------------------------------
\* The GPU viewer's viewport mathematics (PixiViewer)
\* ------------------------------------------------------------------------

\* "Center view": scale = Math.min(app.screen.width / baseSprite.width,
\* (app.screen.height - 60) / baseSprite.height) * 0.9
FitScaleOn(screen, content) ==
    QMul(QMin(QDiv(R(screen.width), R(content[1])),
              QDiv(R(screen.height - HeaderH), R(content[2]))),
         FitMargin)

\* A fit that fills the viewport, without the 0.9 margin.
FitTransformTight(screen, content) ==
    LET scale == QMin(QDiv(R(screen.width), R(content[1])),
                      QDiv(R(screen.height - HeaderH), R(content[2])))
    IN  [scale |-> scale,
         x |-> QDiv(QSub(R(screen.width), QMul(R(content[1]), scale)), R(2)),
         y |-> QAdd(R(HeaderH),
                    QDiv(QSub(R(screen.height - HeaderH),
                              QMul(R(content[2]), scale)), R(2)))]

\* mainContainer.scale.set(scale); mainContainer.x = ...; mainContainer.y = ...
FitTransformOn(screen, content) ==
    LET scale == FitScaleOn(screen, content)
    IN  [scale |-> scale,
         x |-> QDiv(QSub(R(screen.width), QMul(R(content[1]), scale)), R(2)),
         y |-> QAdd(R(HeaderH),
                    QDiv(QSub(R(screen.height - HeaderH),
                              QMul(R(content[2]), scale)), R(2)))]

\* The fit on the screen of this session.
FitScale(content) == FitScaleOn(Screen, content)
FitTransform(content) == FitTransformOn(Screen, content)

\* newScale = Math.max(0.1, Math.min(10, mc.scale.x * delta))
WheelNewScale(scale, deltaY) ==
    QMax(MinScale,
         QMin(MaxScale, QMul(scale, IF deltaY > 0 THEN WheelOut ELSE WheelIn)))

\* A wheel listener that re-anchors with the requested factor instead of the
\* clamped scale.
WheelZoomByFactor(mc, deltaY, mouse) ==
    LET newScale == WheelNewScale(mc.scale, deltaY)
        factor == IF deltaY > 0 THEN WheelOut ELSE WheelIn
    IN  [scale |-> newScale,
         x |-> QSub(R(mouse[1]), QMul(QSub(R(mouse[1]), mc.x), factor)),
         y |-> QSub(R(mouse[2]), QMul(QSub(R(mouse[2]), mc.y), factor))]

\* A wheel listener with the direction of the wheel inverted.
WheelZoomInverted(mc, deltaY, mouse) ==
    LET newScale == WheelNewScale(mc.scale, -deltaY)
        worldX == QDiv(QSub(R(mouse[1]), mc.x), mc.scale)
        worldY == QDiv(QSub(R(mouse[2]), mc.y), mc.scale)
    IN  [scale |-> newScale,
         x |-> QSub(R(mouse[1]), QMul(worldX, newScale)),
         y |-> QSub(R(mouse[2]), QMul(worldY, newScale))]

\* The wheel listener's update of the main container.
WheelZoom(mc, deltaY, mouse) ==
    LET newScale == WheelNewScale(mc.scale, deltaY)
        worldX == QDiv(QSub(R(mouse[1]), mc.x), mc.scale)
        worldY == QDiv(QSub(R(mouse[2]), mc.y), mc.scale)
    IN  [scale |-> newScale,
         x |-> QSub(R(mouse[1]), QMul(worldX, newScale)),
         y |-> QSub(R(mouse[2]), QMul(worldY, newScale))]

\* A pan that keeps the container's origin on the canvas.
DragMoveClamped(mc, containerStart, dragStart, p) ==
    [mc EXCEPT !.x = QMax(R(0), QMin(R(Screen.width),
                         QAdd(containerStart[1], R(p[1] - dragStart[1])))),
               !.y = QMax(R(0), QMin(R(Screen.height),
                         QAdd(containerStart[2], R(p[2] - dragStart[2]))))]

\* pointermove: mc.x = containerStart.x + (e.global.x - dragStart.x), same for y
DragMove(mc, containerStart, dragStart, p) ==
    [mc EXCEPT !.x = QAdd(containerStart[1], R(p[1] - dragStart[1])),
               !.y = QAdd(containerStart[2], R(p[2] - dragStart[2]))]

\* The click listener's guard: Math.abs(e.global.x - dragStart.x) > 5 returns.
ClickSuppressed(dragStart, p) == Abs(p[1] - dragStart[1]) > ClickThreshold

\* A click listener that forgets to divide by the container's scale.
PixiClickPosUnscaled(mc, p, sf) ==
    LET worldX == QSub(R(p[1]), mc.x)
        worldY == QSub(R(p[2]), mc.y)
    IN  [set |-> TRUE,
         screen |-> <<MathRound(R(p[1])), MathRound(R(p[2]))>>,
         original |-> <<MathRound(QDiv(worldX, sf)), MathRound(QDiv(worldY, sf))>>]

\* A click listener that truncates with Math.floor instead of Math.round.
PixiClickPosFloor(mc, p, sf) ==
    LET worldX == QDiv(QSub(R(p[1]), mc.x), mc.scale)
        worldY == QDiv(QSub(R(p[2]), mc.y), mc.scale)
    IN  [set |-> TRUE,
         screen |-> <<MathRound(R(p[1])), MathRound(R(p[2]))>>,
         original |-> <<QFloor(QDiv(worldX, sf)), QFloor(QDiv(worldY, sf))>>]

\* The click listener's measurement.
PixiClickPos(mc, p, sf) ==
    LET worldX == QDiv(QSub(R(p[1]), mc.x), mc.scale)
        worldY == QDiv(QSub(R(p[2]), mc.y), mc.scale)
    IN  [set |-> TRUE,
         screen |-> <<MathRound(R(p[1])), MathRound(R(p[2]))>>,
         original |-> <<MathRound(QDiv(worldX, sf)), MathRound(QDiv(worldY, sf))>>]

\* handleZoomIn / handleZoomOut
ZoomInScale(scale) == QMin(MaxScale, QMul(scale, ZoomInStep))
ZoomOutScale(scale) == QMax(MinScale, QMul(scale, ZoomOutStep))

\* handleMiniMapNavigate(x, y)
MiniMapNavigate(mc, content, x, y) ==
    [mc EXCEPT
       !.x = QSub(QDiv(R(Screen.width), R(2)),
                  QMul(QMul(R(x), R(content[1])), mc.scale)),
       !.y = QSub(QAdd(QDiv(R(Screen.height - HeaderH), R(2)), R(HeaderH)),
                  QMul(QMul(R(y), R(content[2])), mc.scale))]

\* updateViewportBounds: the rectangle handed to the minimap, in percent.
ViewportBoundsOf(mc, content) ==
    LET bw == QMul(R(content[1]), mc.scale)
        bh == QMul(R(content[2]), mc.scale)
        vx == QDiv(QNeg(mc.x), bw)
        vy == QDiv(QNeg(QSub(mc.y, R(HeaderH))), bh)
        vw == QDiv(R(Screen.width), bw)
        vh == QDiv(R(Screen.height - HeaderH), bh)
    IN  [x |-> QMax(R(0), QMul(vx, R(100))),
         y |-> QMax(R(0), QMul(vy, R(100))),
         width |-> QMin(R(100), QMul(vw, R(100))),
         height |-> QMin(R(100), QMul(vh, R(100)))]

\* MiniMap.viewportStyle: the rectangle the minimap draws, in percent.
ViewportStyle(vb) ==
    [left |-> QMax(R(0), QMin(QSub(R(100), vb.width), vb.x)),
     top |-> QMax(R(0), QMin(QSub(R(100), vb.height), vb.y)),
     width |-> QMax(R(MinSize), QMin(R(100), vb.width)),
     height |-> QMax(R(MinSize), QMin(R(100), vb.height))]

\* ------------------------------------------------------------------------
\* State of the GPU viewer
\* ------------------------------------------------------------------------
NullRef == [app |-> NoApp, mainContainer |-> NoApp, baseSprite |-> NoApp,
            overlays |-> [k \in KeySet |-> NoApp]]

NoSprite == [loaded |-> FALSE, zIndex |-> 0, alpha |-> R(0), visible |-> FALSE]

\* One PIXI.Application with the initPixi call that created it:
\*   pc      where that initPixi call stands ("none": not yet created)
\*   state   "none", "live" (constructed, not destroyed) or "destroyed"
\*   page, content, sf   the data the effect closed over
\*   canvas  app.canvas is a child of the container element
\*   listeners   wheel and pointer listeners are registered
\*   base, sprites   children of mainContainer
\*   baseZ   baseSprite.zIndex (-1: no base sprite)
\*   mc      mainContainer's scale, x, y
\*   isDragging, dragStart, containerStart   the closure variables of the listeners
NoAppRec ==
    [pc |-> "none", state |-> "none", page |-> 0, content |-> <<1, 1>>,
     sf |-> R(1), canvas |-> FALSE, listeners |-> FALSE, base |-> FALSE,
     baseZ |-> -1,
     sprites |-> [k \in KeySet |-> NoSprite],
     mc |-> UnitTransform,
     isDragging |-> FALSE, dragStart |-> <<0, 0>>,
     containerStart |-> <<R(0), R(0)>>]

\* new PIXI.Application() followed by the call of app.init, which suspends.
NewApp(d) ==
    [NoAppRec EXCEPT !.pc = "awaitInit", !.state = "live", !.page = d.page,
                     !.content = d.content, !.sf = d.sf]

\* app.destroy(true, {children: true, texture: true}): the canvas leaves the
\* document and with it every listener registered on it.
Destroyed(rec) ==
    [rec EXCEPT !.state = "destroyed", !.canvas = FALSE, !.listeners = FALSE,
                !.isDragging = FALSE]

\* "if (pixiRef.current.app) { app.destroy(...); pixiRef.current = {...null} }",
\* as the effect's cleanup and the head of initPixi both do.
CleanupApps(ref, as) ==
    IF ref.app = NoApp THEN as
    ELSE [as EXCEPT ![ref.app] = Destroyed(@)]

CleanupRef(ref) == IF ref.app = NoApp THEN ref ELSE NullRef

\* updateViewportBounds() against the given refs and applications.
UpdatedBounds(ref, as, old) ==
    IF ref.app = NoApp \/ ref.mainContainer = NoApp \/ ref.baseSprite = NoApp
    THEN old
    ELSE ViewportBoundsOf(as[ref.mainContainer].mc, as[ref.baseSprite].content)

\* The viewer renders its view and not the placeholder of
\* "if (!data || !data.images) return <Loading...>": containerRef.current is
\* set, the canvas container, the buttons and the panel are in the document.
Rendered == mounted /\ data.images

\* A state setter called after the component unmounted changes nothing.
SetState(new, old) == IF mounted THEN new ELSE old

\* lastEvent: the kind of the event handled last, the application whose
\* listener handled it, its screen point, whether it took a measurement, and
\* the transform of the displayed container just before it.
Event(t, a, p) ==
    [type |-> t, app |-> a, p |-> p, measured |-> FALSE,
     before |-> IF pixiRef.mainContainer = NoApp THEN UnitTransform
                ELSE apps[pixiRef.mainContainer].mc,
     deltaY |-> 0,
     wasDragging |-> IF a = NoApp THEN FALSE ELSE apps[a].isDragging]

\* The panel state and App's error state right after mount.
PanelInit ==
    /\ layers = AllLayers
    /\ opacity = DefaultOpacity
    /\ grayscaleMode = FALSE
    /\ texture = [a \in AppIds |-> "base"]
    /\ texLoads = {}
    /\ toggled = NoToggle
    /\ error = NoError

directVars == <<transformState, imageLoaded, viewportBoundsRef, miniMapBounds,
                overlayImgs>>
layerVars == <<layers, opacity, toggled>>
sourceVars == <<grayscaleMode, texture, texLoads>>
panelVars == <<layerVars, sourceVars, error>>
probeVars == <<probe, measured>>

\* The state of App besides the session data and the error message.
appVars == <<step, sessionData, requests, requested>>

\* ------------------------------------------------------------------------
\* initPixi: the asynchronous initialisation, one action per resumption
\* ------------------------------------------------------------------------

\* await app.init(...) resolves; "if (!containerRef.current) return";
\* the canvas is appended and the base texture load starts.
AppInitResolve(a) ==
    /\ strategy = "gpu"
    /\ apps[a].pc = "awaitInit"
    /\ apps' = [apps EXCEPT ![a] =
                  IF Rendered
                  THEN [@ EXCEPT !.pc = "awaitBase", !.canvas = TRUE]
                  ELSE [@ EXCEPT !.pc = "returned"]]
    /\ lastEvent' = Event("init", a, <<0, 0>>)
    /\ UNCHANGED <<panelVars, strategy, mounted, data, pixiRef, nextApp, zoomLevel, clickPos,
                   isLoading, viewportBounds, directVars, probeVars, appVars, pages, steps>>

\* await app.init(...) rejects: the outer catch logs and ends loading.
AppInitReject(a) ==
    /\ strategy = "gpu"
    /\ apps[a].pc = "awaitInit"
    /\ apps' = [apps EXCEPT ![a].pc = "failed"]
    /\ isLoading' = SetState(FALSE, isLoading)
    /\ lastEvent' = Event("initfail", a, <<0, 0>>)
    /\ UNCHANGED <<panelVars, strategy, mounted, data, pixiRef, nextApp, zoomLevel, clickPos,
                   viewportBounds, directVars, probeVars, appVars, pages, steps>>

\* await PIXI.Assets.load(imageUrls.base) resolves: the base sprite is added
\* and the refs are stored; the first overlay load starts.
BaseLoadResolve(a) ==
    /\ strategy = "gpu"
    /\ apps[a].pc = "awaitBase"
    /\ apps' = [apps EXCEPT ![a] = [@ EXCEPT !.pc = "awaitRed", !.base = TRUE,
                                           !.baseZ = 0]]
    /\ pixiRef' = [pixiRef EXCEPT !.app = a, !.mainContainer = a, !.baseSprite = a]
    /\ lastEvent' = Event("base", a, <<0, 0>>)
    /\ UNCHANGED <<panelVars, strategy, mounted, data, nextApp, zoomLevel, clickPos,
                   isLoading, viewportBounds, directVars, probeVars, appVars, pages, steps>>

\* The base texture load rejects: the outer catch logs and ends loading.
BaseLoadReject(a) ==
    /\ strategy = "gpu"
    /\ apps[a].pc = "awaitBase"
    /\ apps' = [apps EXCEPT ![a].pc = "failed"]
    /\ isLoading' = SetState(FALSE, isLoading)
    /\ lastEvent' = Event("basefail", a, <<0, 0>>)
    /\ UNCHANGED <<panelVars, strategy, mounted, data, pixiRef, nextApp, zoomLevel, clickPos,
                   viewportBounds, directVars, probeVars, appVars, pages, steps>>

OverlayKey(pc) ==
    CASE pc = "awaitRed" -> "red" [] pc = "awaitGreen" -> "green"
      [] pc = "awaitBlue" -> "blue"

OverlayZ(key) == CASE key = "red" -> 1 [] key = "green" -> 2 [] key = "blue" -> 3

AfterOverlay(pc) ==
    CASE pc = "awaitRed" -> "awaitGreen" [] pc = "awaitGreen" -> "awaitBlue"
      [] pc = "awaitBlue" -> "ready"

\* An overlay loop that leaves the z-order to the position in the container:
\* the sprite gets the number of overlays stored before it, plus one.
NewSpriteByPosition(key) ==
    [loaded |-> TRUE,
     zIndex |-> 1 + Cardinality({k \in KeySet : pixiRef.overlays[k] # NoApp}),
     alpha |-> DefaultAlpha, visible |-> TRUE]

\* The sprite the overlay loop creates for a loaded texture.
NewSprite(key) ==
    [loaded |-> TRUE, zIndex |-> OverlayZ(key), alpha |-> DefaultAlpha,
     visible |-> TRUE]

\* What follows the overlay loop, in the same turn: centre the view, register
\* the listeners, end loading, publish the zoom level and the minimap
\* rectangle.  On an application that was destroyed meanwhile app.screen
\* throws (its renderer is gone) and the outer catch ends loading.
FinishInit(a, as, ref) ==
    IF as[a].state = "destroyed"
    THEN /\ apps' = [as EXCEPT ![a].pc = "failed"]
         /\ isLoading' = SetState(FALSE, isLoading)
         /\ UNCHANGED <<zoomLevel, viewportBounds>>
    ELSE LET fit == FitTransform(as[a].content)
             as2 == [as EXCEPT ![a] = [@ EXCEPT !.pc = "ready", !.mc = fit,
                                                !.listeners = TRUE]]
         IN  /\ apps' = as2
             /\ isLoading' = SetState(FALSE, isLoading)
             /\ zoomLevel' = SetState(MathRound(QMul(fit.scale, R(100))), zoomLevel)
             /\ viewportBounds' =
                   SetState(UpdatedBounds(ref, as2, viewportBounds), viewportBounds)

\* One overlay load settles.  ok: the sprite is added to this task's container
\* and stored in pixiRef.current.overlays; otherwise the inner catch warns.
OverlayLoad(a, ok) ==
    /\ strategy = "gpu"
    /\ apps[a].pc \in {"awaitRed", "awaitGreen", "awaitBlue"}
    /\ LET key == OverlayKey(apps[a].pc)
           as == IF ok
                 THEN [apps EXCEPT ![a] = [@ EXCEPT !.pc = AfterOverlay(@),
                                                    !.sprites[key] = NewSprite(key)]]
                 ELSE [apps EXCEPT ![a].pc = AfterOverlay(@)]
           ref == IF ok THEN [pixiRef EXCEPT !.overlays[key] = a] ELSE pixiRef
       IN  /\ pixiRef' = ref
           /\ IF key = "blue"
              THEN FinishInit(a, as, ref)
              ELSE /\ apps' = as
                   /\ UNCHANGED <<isLoading, zoomLevel, viewportBounds>>
    /\ lastEvent' = Event(IF ok THEN "overlay" ELSE "overlayfail", a, <<0, 0>>)
    /\ UNCHANGED <<panelVars, strategy, mounted, data, nextApp, clickPos, directVars,
                   probeVars, appVars, pages, steps>>

OverlayLoadResolve(a) == OverlayLoad(a, TRUE)

\* An overlay loop without its inner try/catch: the rejection reaches the
\* outer catch, which ends loading and abandons the initialisation.
OverlayLoadRejectEscalates(a) ==
    /\ strategy = "gpu"
    /\ apps[a].pc \in {"awaitRed", "awaitGreen", "awaitBlue"}
    /\ apps' = [apps EXCEPT ![a].pc = "failed"]
    /\ isLoading' = SetState(FALSE, isLoading)
    /\ lastEvent' = Event("overlayfail", a, <<0, 0>>)
    /\ UNCHANGED <<panelVars, strategy, mounted, data, pixiRef, nextApp,
                   zoomLevel, clickPos, viewportBounds, directVars, probeVars, appVars,
                   pages, steps>>

OverlayLoadReject(a) == OverlayLoad(a, FALSE)

\* ------------------------------------------------------------------------
\* User input on the GPU viewer
\* ------------------------------------------------------------------------
UserCan == Rendered /\ steps < MaxSteps

\* Pointer and wheel events reach the canvas of application a: it is in the
\* document with its listeners, and the loading spinner does not cover it.
CanvasEvent(a) ==
    /\ strategy = "gpu"
    /\ UserCan
    /\ apps[a].state = "live" /\ apps[a].canvas /\ apps[a].listeners
    /\ ~isLoading

\* The wheel listener.
Wheel(a, deltaY, mouse) ==
    /\ CanvasEvent(a)
    /\ pixiRef.mainContainer # NoApp
    /\ LET m == pixiRef.mainContainer
           as == [apps EXCEPT ![m].mc = WheelZoom(@, deltaY, mouse)]
       IN  /\ apps' = as
           /\ zoomLevel' = MathRound(QMul(as[m].mc.scale, R(100)))
           /\ viewportBounds' = UpdatedBounds(pixiRef, as, viewportBounds)
    /\ steps' = steps + 1
    /\ lastEvent' = [Event("wheel", a, mouse) EXCEPT !.deltaY = deltaY]
    /\ UNCHANGED <<panelVars, strategy, mounted, data, pixiRef, nextApp, clickPos, isLoading,
                   directVars, probeVars, appVars, pages>>

\* stage 'pointerdown'
PointerDown(a, p) ==
    /\ CanvasEvent(a)
    /\ ~apps[a].isDragging
    /\ apps' = [apps EXCEPT ![a] =
                  [@ EXCEPT !.isDragging = TRUE, !.dragStart = p,
                            !.containerStart = <<apps[a].mc.x, apps[a].mc.y>>]]
    /\ steps' = steps + 1
    /\ lastEvent' = Event("pointerdown", a, p)
    /\ UNCHANGED <<panelVars, strategy, mounted, data, pixiRef, nextApp, zoomLevel, clickPos,
                   isLoading, viewportBounds, directVars, probeVars, appVars, pages>>

\* A pointermove listener without the "if (!isDragging) return" guard.
PointerMoveAlways(a, p) ==
    /\ CanvasEvent(a)
    /\ pixiRef.mainContainer # NoApp
    /\ LET m == pixiRef.mainContainer
           as == [apps EXCEPT ![m].mc =
                    DragMove(@, apps[a].containerStart, apps[a].dragStart, p)]
       IN  /\ apps' = as
           /\ viewportBounds' = UpdatedBounds(pixiRef, as, viewportBounds)
    /\ lastEvent' = Event("pointermove", a, p)
    /\ steps' = steps + 1
    /\ UNCHANGED <<panelVars, strategy, mounted, data, pixiRef, nextApp, zoomLevel, clickPos,
                   isLoading, directVars, probeVars, appVars, pages>>

\* stage 'pointermove': "if (!isDragging) return", else the container follows
\* the pointer and the minimap rectangle is recomputed.
PointerMove(a, p) ==
    /\ CanvasEvent(a)
    /\ pixiRef.mainContainer # NoApp
    /\ IF apps[a].isDragging
       THEN LET m == pixiRef.mainContainer
                as == [apps EXCEPT ![m].mc =
                         DragMove(@, apps[a].containerStart, apps[a].dragStart, p)]
            IN  /\ apps' = as
                /\ viewportBounds' = UpdatedBounds(pixiRef, as, viewportBounds)
       ELSE UNCHANGED <<apps, viewportBounds>>
    /\ lastEvent' = Event("pointermove", a, p)
    /\ steps' = steps + 1
    /\ UNCHANGED <<panelVars, strategy, mounted, data, pixiRef, nextApp, zoomLevel, clickPos,
                   isLoading, directVars, probeVars, appVars, pages>>

\* stage 'pointerup' on the canvas: endDrag, then the 'click' the stage
\* receives for a press and release on it, at the same point.
PointerUp(a, p) ==
    /\ CanvasEvent(a)
    /\ apps[a].isDragging
    /\ apps' = [apps EXCEPT ![a].isDragging = FALSE]
    /\ LET taken == /\ ~ClickSuppressed(apps[a].dragStart, p)
                    /\ pixiRef.mainContainer # NoApp
       IN  /\ clickPos' = IF taken
                          THEN PixiClickPos(apps[pixiRef.mainContainer].mc, p,
                                            apps[a].sf)
                          ELSE clickPos
           /\ lastEvent' = [Event("pointerup", a, p) EXCEPT !.measured = taken]
    /\ steps' = steps + 1
    /\ UNCHANGED <<panelVars, strategy, mounted, data, pixiRef, nextApp, zoomLevel,
                   isLoading, viewportBounds, directVars, probeVars, appVars, pages>>

\* stage 'pointerupoutside': endDrag only.
PointerUpOutside(a) ==
    /\ CanvasEvent(a)
    /\ apps[a].isDragging
    /\ apps' = [apps EXCEPT ![a].isDragging = FALSE]
    /\ lastEvent' = Event("pointerupoutside", a, <<0, 0>>)
    /\ steps' = steps + 1
    /\ UNCHANGED <<panelVars, strategy, mounted, data, pixiRef, nextApp, zoomLevel, clickPos,
                   isLoading, viewportBounds, directVars, probeVars, appVars, pages>>

\* A zoom button: the scale alone changes.
ZoomButton(newScale, name) ==
    /\ strategy = "gpu"
    /\ UserCan
    /\ pixiRef.mainContainer # NoApp
    /\ LET m == pixiRef.mainContainer
           as == [apps EXCEPT ![m].mc.scale = newScale]
       IN  /\ apps' = as
           /\ zoomLevel' = MathRound(QMul(newScale, R(100)))
           /\ viewportBounds' = UpdatedBounds(pixiRef, as, viewportBounds)
    /\ steps' = steps + 1
    /\ lastEvent' = Event(name, pixiRef.mainContainer, <<0, 0>>)
    /\ UNCHANGED <<panelVars, strategy, mounted, data, pixiRef, nextApp, clickPos, isLoading,
                   directVars, probeVars, appVars, pages>>

CurrentScale == apps[pixiRef.mainContainer].mc.scale

handleZoomIn ==
    /\ pixiRef.mainContainer # NoApp
    /\ ZoomButton(ZoomInScale(CurrentScale), "zoomin")

handleZoomOut ==
    /\ pixiRef.mainContainer # NoApp
    /\ ZoomButton(ZoomOutScale(CurrentScale), "zoomout")

\* handleZoomIn pressed until Math.min(10, ...) saturates: each press
\* multiplies the scale by 1.3, so from any scale finitely many presses end
\* at exactly 10, with the translation untouched.
handleZoomInToLimit ==
    /\ pixiRef.mainContainer # NoApp
    /\ QLt(CurrentScale, MaxScale)
    /\ ZoomButton(MaxScale, "zoominmax")

\* handleZoomOut pressed until Math.max(0.1, ...) saturates.
handleZoomOutToLimit ==
    /\ pixiRef.mainContainer # NoApp
    /\ QLt(MinScale, CurrentScale)
    /\ ZoomButton(MinScale, "zoomoutmin")

handleResetView ==
    /\ strategy = "gpu"
    /\ UserCan
    /\ pixiRef.app # NoApp /\ pixiRef.mainContainer # NoApp
    /\ pixiRef.baseSprite # NoApp
    /\ LET m == pixiRef.mainContainer
           fit == FitTransform(apps[pixiRef.baseSprite].content)
           as == [apps EXCEPT ![m].mc = fit]
       IN  /\ apps' = as
           /\ zoomLevel' = MathRound(QMul(fit.scale, R(100)))
           /\ viewportBounds' = UpdatedBounds(pixiRef, as, viewportBounds)
    /\ steps' = steps + 1
    /\ lastEvent' = Event("reset", pixiRef.mainContainer, <<0, 0>>)
    /\ UNCHANGED <<panelVars, strategy, mounted, data, pixiRef, nextApp, clickPos, isLoading,
                   directVars, probeVars, appVars, pages>>

\* A click on the minimap: MiniMap.handleClick calls onNavigate(x, y).
handleMiniMapNavigate(x, y) ==
    /\ strategy = "gpu"
    /\ UserCan
    /\ pixiRef.app # NoApp /\ pixiRef.mainContainer # NoApp
    /\ pixiRef.baseSprite # NoApp
    /\ LET m == pixiRef.mainContainer
           as == [apps EXCEPT ![m].mc =
                    MiniMapNavigate(@, apps[pixiRef.baseSprite].content, x, y)]
       IN  /\ apps' = as
           /\ viewportBounds' = UpdatedBounds(pixiRef, as, viewportBounds)
    /\ steps' = steps + 1
    /\ lastEvent' = Event("minimap", pixiRef.mainContainer, <<x, y>>)
    /\ UNCHANGED <<panelVars, strategy, mounted, data, pixiRef, nextApp, zoomLevel, clickPos,
                   isLoading, directVars, probeVars, appVars, pages>>

\* ------------------------------------------------------------------------
\* The layer panel of the GPU viewer (Controls and the two panel effects)
\* ------------------------------------------------------------------------
PanelCan == Rendered /\ steps < MaxPanelSteps

\* The layers/opacity effect: every sprite stored in pixiRef.current.overlays
\* gets visible = layers[key] and alpha = opacity / 100.
ApplyLayers(as, ref, ls, op) ==
    [a \in AppIds |->
       [as[a] EXCEPT !.sprites =
          [k \in KeySet |->
             IF ref.overlays[k] = a
             THEN [as[a].sprites[k] EXCEPT !.visible = ls[k],
                                           !.alpha = QDiv(R(op), R(100))]
             ELSE as[a].sprites[k]]]]

\* What the displayed container composites: the base sprite with its source,
\* and the overlay sprites with their visibility, alpha and z-order.
CompositionOf(as, ref, tex) ==
    IF ref.mainContainer = NoApp
    THEN [base |-> "none", sprites |-> [k \in KeySet |-> NoSprite]]
    ELSE [base |-> IF as[ref.mainContainer].base
                   THEN tex[ref.mainContainer] ELSE "none",
          sprites |-> as[ref.mainContainer].sprites]

Composition == CompositionOf(apps, pixiRef, texture)

\* Everything but the toggled layer that the composition depends on.
RestOf(as, ls) == <<as, pixiRef, ls, opacity, texture, texLoads>>

\* A checkbox of Controls: handleLayerToggle(layer, value), then the
\* layers/opacity effect.  toggled remembers a switch-off with the composition
\* before it, and marks the switch-on of the same layer that follows it with
\* nothing else changed in between.
handleLayerToggle(key, value) ==
    /\ strategy = "gpu"
    /\ PanelCan
    /\ value # layers[key]
    /\ LET ls == [layers EXCEPT ![key] = value]
           as == ApplyLayers(apps, pixiRef, ls, opacity)
       IN  /\ layers' = ls
           /\ apps' = as
           /\ toggled' =
                 IF ~value
                 THEN [key |-> key, phase |-> "off", comp |-> Composition,
                       rest |-> RestOf(as, ls)]
                 ELSE IF /\ toggled.phase = "off"
                         /\ toggled.key = key
                         /\ toggled.rest = RestOf(apps, layers)
                      THEN [toggled EXCEPT !.phase = "on"]
                      ELSE NoToggle
    /\ steps' = steps + 1
    /\ lastEvent' = Event("toggle", NoApp, <<0, 0>>)
    /\ UNCHANGED <<opacity, sourceVars, error, strategy, mounted, data, pixiRef,
                   nextApp, zoomLevel, clickPos, isLoading, viewportBounds,
                   directVars, probeVars, appVars, pages>>

\* The opacity slider of Controls: handleOpacityChange(value), then the
\* layers/opacity effect.
handleOpacityChange(value) ==
    /\ strategy = "gpu"
    /\ PanelCan
    /\ value # opacity
    /\ opacity' = value
    /\ apps' = ApplyLayers(apps, pixiRef, layers, value)
    /\ toggled' = NoToggle
    /\ steps' = steps + 1
    /\ lastEvent' = Event("opacity", NoApp, <<0, 0>>)
    /\ UNCHANGED <<layers, sourceVars, error, strategy, mounted, data, pixiRef,
                   nextApp, zoomLevel, clickPos, isLoading, viewportBounds,
                   directVars, probeVars, appVars, pages>>

\* A grayscale switch whose change re-runs the init effect (grayscaleMode
\* among its dependencies): the cleanup destroys the stored application and
\* initPixi starts again with a new one.
handleGrayscaleToggleReinit(value) ==
    /\ strategy = "gpu"
    /\ PanelCan
    /\ value # grayscaleMode
    /\ nextApp <= MaxApps
    /\ grayscaleMode' = value
    /\ pixiRef' = CleanupRef(pixiRef)
    /\ apps' = [CleanupApps(pixiRef, apps) EXCEPT ![nextApp] = NewApp(data)]
    /\ nextApp' = nextApp + 1
    /\ isLoading' = TRUE
    /\ steps' = steps + 1
    /\ lastEvent' = Event("grayscale", NoApp, <<0, 0>>)
    /\ UNCHANGED <<layerVars, texture, texLoads, error, strategy, mounted, data,
                   zoomLevel, clickPos, viewportBounds, directVars, probeVars, appVars,
                   pages>>

\* The grayscale switch of Controls: setGrayscaleMode(value), then the
\* grayscale effect, which returns while no base sprite is stored and else
\* starts the load of the other source for the stored base sprite.
handleGrayscaleToggle(value) ==
    /\ strategy = "gpu"
    /\ PanelCan
    /\ value # grayscaleMode
    /\ grayscaleMode' = value
    /\ texLoads' =
          IF pixiRef.baseSprite = NoApp THEN texLoads
          ELSE texLoads \cup
                 {[sprite |-> pixiRef.baseSprite,
                   url |-> IF value THEN "baseGrayscale" ELSE "base"]}
    /\ steps' = steps + 1
    /\ lastEvent' = Event("grayscale", NoApp, <<0, 0>>)
    /\ UNCHANGED <<layerVars, texture, error, strategy, mounted, data, pixiRef,
                   apps, nextApp, zoomLevel, clickPos, isLoading, viewportBounds,
                   directVars, probeVars, appVars, pages>>

\* PIXI.Assets.load(newUrl).then(texture => baseSprite.texture = texture)
TextureLoadResolve(l) ==
    /\ l \in texLoads
    /\ texLoads' = texLoads \ {l}
    /\ texture' = [texture EXCEPT ![l.sprite] = l.url]
    /\ lastEvent' = Event("texture", l.sprite, <<0, 0>>)
    /\ UNCHANGED <<layerVars, grayscaleMode, error, strategy, mounted, data,
                   pixiRef, apps, nextApp, zoomLevel, clickPos, isLoading,
                   viewportBounds, directVars, probeVars, appVars, pages, steps>>

\* A swap that loads nothing and leaves the sprite without a source.
TextureBlanked(tex, l) == [tex EXCEPT ![l.sprite] = "none"]

\* .catch(err => console.warn(...)): the sources after a failed load.
TextureAfterReject(tex, l) == tex

\* The load of the grayscale effect rejects.
TextureLoadReject(l) ==
    /\ l \in texLoads
    /\ texLoads' = texLoads \ {l}
    /\ texture' = TextureAfterReject(texture, l)
    /\ lastEvent' = Event("texturefail", l.sprite, <<0, 0>>)
    /\ UNCHANGED <<layerVars, grayscaleMode, error, strategy, mounted, data,
                   pixiRef, apps, nextApp, zoomLevel, clickPos, isLoading,
                   viewportBounds, directVars, probeVars, appVars, pages, steps>>

\* ------------------------------------------------------------------------
\* The direct viewer (ComparisonViewer) and the tiled viewer (TileViewer)
\* ------------------------------------------------------------------------

\* TransformWrapper's state as configured: initialScale = 1, centerOnInit =
\* false; resetTransform() returns to it.
InitialTransform == [scale |-> R(1), positionX |-> R(0), positionY |-> R(0)]

\* getBoundingClientRect() of the base image inside the transformed content
\* (transform origin at its top left, the image below a 60px margin).
ImageRect(ts) ==
    [left |-> ts.positionX,
     top |-> QAdd(ts.positionY, QMul(R(HeaderH), ts.scale))]

\* ComparisonViewer.handleClick: x = e.clientX - rect.left, y = e.clientY -
\* rect.top, original = Math.round(x / data.scaling_factor).
DirectClickPos(ts, p, sf) ==
    LET rect == ImageRect(ts)
        x == QSub(R(p[1]), rect.left)
        y == QSub(R(p[2]), rect.top)
    IN  [set |-> TRUE,
         screen |-> <<MathRound(x), MathRound(y)>>,
         original |-> <<MathRound(QDiv(x, sf)), MathRound(QDiv(y, sf))>>]

\* TileViewer canvas-click: viewport.pointFromPixel followed by
\* viewportToImageCoordinates gives the image pixel under the screen point of
\* an image drawn at scale mc.scale with its origin at (mc.x, mc.y).
TileClickPos(mc, p, sf) ==
    LET imageX == QDiv(QSub(R(p[1]), mc.x), mc.scale)
        imageY == QDiv(QSub(R(p[2]), mc.y), mc.scale)
    IN  [set |-> TRUE,
         screen |-> <<MathRound(R(p[1])), MathRound(R(p[2]))>>,
         original |-> <<MathRound(QDiv(imageX, sf)), MathRound(QDiv(imageY, sf))>>]

\* The TransformWrapper state that draws the image at scale mc.scale with its
\* origin at (mc.x, mc.y).
WrapperStateOf(mc) ==
    [scale |-> mc.scale, positionX |-> mc.x,
     positionY |-> QSub(mc.y, QMul(R(HeaderH), mc.scale))]

\* handleTransformEnd: the rectangle stored in viewportBoundsRef.current.
TransformEndBounds(ts) ==
    [x |-> QDiv(QNeg(ts.positionX), ts.scale),
     y |-> QDiv(QNeg(ts.positionY), ts.scale),
     width |-> QDiv(R(Screen.width), ts.scale),
     height |-> QDiv(R(Screen.height), ts.scale)]

\* The variant of MiniMap.viewportStyle that divides the bounds by 10: the
\* rectangle the minimap draws from given bounds, in percent, before its
\* clamping.
DrawnByTen(vb) ==
    [x |-> QDiv(vb.x, R(10)), y |-> QDiv(vb.y, R(10)),
     width |-> QDiv(vb.width, R(10)), height |-> QDiv(vb.height, R(10))]

\* The base <img> fires onLoad: handleImageLoad (setImageLoaded renders the
\* viewer again, and the minimap receives viewportBoundsRef.current).
handleImageLoad ==
    /\ strategy = "direct"
    /\ Rendered
    /\ ~imageLoaded
    /\ imageLoaded' = TRUE
    /\ miniMapBounds' = viewportBoundsRef
    /\ lastEvent' = Event("imageload", NoApp, <<0, 0>>)
    /\ UNCHANGED <<panelVars, strategy, mounted, data, pixiRef, apps, nextApp, zoomLevel,
                   clickPos, isLoading, viewportBounds, transformState,
                   viewportBoundsRef, overlayImgs, probeVars, appVars, pages, steps>>

\* A pan gesture handled by TransformWrapper (panning enabled, limitToBounds
\* false): the position moves by the pointer's displacement.  onTransformed
\* calls handleTransformEnd, which stores the rectangle in the ref and sets
\* the zoom level; the viewer renders again only if the zoom level changed.
WrapperPan(from, to) ==
    /\ strategy = "direct"
    /\ UserCan
    /\ LET ts == [transformState EXCEPT
                    !.positionX = QAdd(@, R(to[1] - from[1])),
                    !.positionY = QAdd(@, R(to[2] - from[2]))]
           zoom == MathRound(QMul(ts.scale, R(100)))
       IN  /\ transformState' = ts
           /\ viewportBoundsRef' = TransformEndBounds(ts)
           /\ zoomLevel' = zoom
           /\ miniMapBounds' = IF zoom # zoomLevel THEN TransformEndBounds(ts)
                               ELSE miniMapBounds
    /\ steps' = steps + 1
    /\ lastEvent' = Event("pan", NoApp, to)
    /\ UNCHANGED <<panelVars, strategy, mounted, data, pixiRef, apps, nextApp,
                   clickPos, isLoading, viewportBounds, imageLoaded, overlayImgs,
                   probeVars, appVars, pages>>

\* The overlay <img> elements in the document: "{layers.red && (<img .../>)}".
\* present: the element is in the document; created: how many elements have
\* been created for the layer, each loading its source when created.
NoImgs == [k \in KeySet |-> [present |-> FALSE, created |-> 0]]
FirstRender == [k \in KeySet |-> [present |-> TRUE, created |-> 1]]

\* A checkbox of Controls on the direct viewer: handleLayerToggle(layer,
\* value) sets the state, and the next render removes the layer's element or
\* creates a new one.
ComparisonViewerLayerToggle(key, value) ==
    /\ strategy = "direct"
    /\ UserCan
    /\ value # layers[key]
    /\ layers' = [layers EXCEPT ![key] = value]
    /\ overlayImgs' =
          [overlayImgs EXCEPT ![key] =
             IF value THEN [present |-> TRUE, created |-> @.created + 1]
             ELSE [@ EXCEPT !.present = FALSE]]
    /\ miniMapBounds' = viewportBoundsRef
    /\ steps' = steps + 1
    /\ lastEvent' = Event("toggle", NoApp, <<0, 0>>)
    /\ UNCHANGED <<opacity, toggled, sourceVars, error, strategy, mounted, data,
                   pixiRef, apps, nextApp, zoomLevel, clickPos, isLoading,
                   viewportBounds, transformState, imageLoaded,
                   viewportBoundsRef, probeVars, appVars, pages>>

\* onClick of the image container.
handleClick(p) ==
    /\ strategy = "direct"
    /\ UserCan
    /\ clickPos' = DirectClickPos(transformState, p, data.sf)
    /\ miniMapBounds' = viewportBoundsRef
    /\ steps' = steps + 1
    /\ lastEvent' = [Event("click", NoApp, p) EXCEPT !.measured = TRUE]
    /\ UNCHANGED <<panelVars, strategy, mounted, data, pixiRef, apps, nextApp, zoomLevel,
                   isLoading, viewportBounds, transformState, imageLoaded,
                   viewportBoundsRef, overlayImgs, probeVars, appVars, pages>>

\* ------------------------------------------------------------------------
\* Page change and unmount
\* ------------------------------------------------------------------------

\* The session data of the first page of a result; images: the response
\* carried the images.
SessionOf(r, images) ==
    [page |-> 0, images |-> images, content |-> r.content, sf |-> r.sf,
     stats |-> 0]

\* {...prev, ...result}: the keys of the response replace those of the
\* previous session data, every other key stays.
MergeSession(prev, response) ==
    [page |-> response.page, images |-> response.images,
     content |-> response.content, sf |-> response.sf,
     stats |-> IF response.stats = Absent THEN prev.stats ELSE response.stats]

\* The viewer renders the placeholder: the container element leaves the
\* document, and every canvas appended to it with it.
Detached(as) == [a \in AppIds |-> [as[a] EXCEPT !.canvas = FALSE]]

\* The direct viewer renders the placeholder: its <img> elements are removed;
\* and renders its view again: an element is created for every layer on.
Removed(imgs) == [k \in KeySet |-> [imgs[k] EXCEPT !.present = FALSE]]
Remounted(imgs, ls) ==
    [k \in KeySet |->
       IF ls[k] THEN [present |-> TRUE, created |-> imgs[k].created + 1]
       ELSE imgs[k]]

\* A new SessionResult arrives as the data prop (another base image URL).
\* GPU viewer: the init effect's cleanup runs, then the effect calls initPixi,
\* which runs up to its first await.  Direct viewer: the reset effect.
\* Without images the viewer renders the placeholder, the cleanup runs and
\* the effect returns at its guard.
\* (App.handlePageChange: processPage resolved with the response and
\* setSessionData(prev => ({...prev, ...result})) stored it.)
ShowResponse(response) ==
    /\ mounted
    /\ LET d == MergeSession(sessionData, response)
       IN  /\ sessionData' = d
           /\ data' = d
           /\ CASE strategy = "gpu" /\ d.images ->
                   /\ nextApp <= MaxApps
                   /\ LET ref1 == CleanupRef(pixiRef)
                          as1 == CleanupApps(pixiRef, apps)
                          ref2 == CleanupRef(ref1)
                          as2 == CleanupApps(ref1, as1)
                      IN  /\ pixiRef' = ref2
                          /\ apps' = [as2 EXCEPT ![nextApp] = NewApp(d)]
                   /\ isLoading' = TRUE
                   /\ nextApp' = nextApp + 1
                   /\ UNCHANGED directVars
                [] strategy = "gpu" /\ ~d.images ->
                   /\ pixiRef' = CleanupRef(pixiRef)
                   /\ apps' = Detached(CleanupApps(pixiRef, apps))
                   /\ UNCHANGED <<isLoading, nextApp, directVars>>
                [] strategy # "gpu" /\ d.images ->
                   /\ imageLoaded' = FALSE
                   /\ miniMapBounds' = viewportBoundsRef
                   /\ overlayImgs' = IF data.images THEN overlayImgs
                                      ELSE Remounted(overlayImgs, layers)
                   /\ UNCHANGED <<pixiRef, apps, isLoading, nextApp, transformState,
                                  viewportBoundsRef>>
                [] strategy # "gpu" /\ ~d.images ->
                   /\ imageLoaded' = FALSE
                   /\ overlayImgs' = Removed(overlayImgs)
                   /\ UNCHANGED <<pixiRef, apps, isLoading, nextApp, transformState,
                                  viewportBoundsRef, miniMapBounds>>
    /\ lastEvent' = Event("page", NoApp, <<0, 0>>)
    /\ UNCHANGED <<layerVars, sourceVars, error, strategy, mounted, zoomLevel,
                   clickPos, viewportBounds, probeVars, step, steps>>

\* App.handlePageChange with nothing happening between the request and its
\* response: processPage resolves and the updater merges the response.
handlePageChange(response) ==
    /\ pages < MaxPages
    /\ pages' = pages + 1
    /\ ShowResponse(response)
    /\ UNCHANGED <<requests, requested>>

\* The response of processPage for the page after the current one.  Every
\* response carries the page, the images and the scaling factor; the stats
\* are carried when withStats.
PageResponse(result, withStats) ==
    [page |-> data.page + 1, images |-> TRUE, content |-> result.content,
     sf |-> result.sf, stats |-> IF withStats THEN data.page + 1 ELSE Absent]

\* A response whose images are null.
ResponseWithoutImages(result) ==
    [PageResponse(result, TRUE) EXCEPT !.images = FALSE]

\* A page change whose response carries every key.
PageChange(result) == handlePageChange(PageResponse(result, TRUE))

\* A handler that moves to the requested page before the request settles
\* and does not move back.
SessionOnRequestedPage(prev) == [prev EXCEPT !.page = @ + 1]

\* What the catch of handlePageChange leaves of the session data.
SessionAfterFailure(prev) == prev

\* App.handlePageChange: processPage rejects, the catch stores the message
\* (a changed message renders App and the direct viewer again).
handlePageChangeFail ==
    /\ mounted
    /\ pages < MaxPages
    /\ pages' = pages + 1
    /\ data' = SessionAfterFailure(data)
    /\ error' = ProcessingFailed
    /\ miniMapBounds' = IF strategy = "direct" /\ error # ProcessingFailed
                        THEN viewportBoundsRef
                        ELSE miniMapBounds
    /\ lastEvent' = Event("pagefail", NoApp, <<0, 0>>)
    /\ UNCHANGED <<layerVars, sourceVars, strategy, mounted, pixiRef, apps,
                   nextApp, zoomLevel, clickPos, isLoading, viewportBounds,
                   transformState, imageLoaded, viewportBoundsRef, overlayImgs, probeVars, appVars,
                   steps>>

\* App.handleReset ("New Comparison"): the session data, the step and the
\* error are reset and the viewer unmounts, so the init effect's cleanup runs.
Unmount ==
    /\ mounted
    /\ step = "results"
    /\ sessionData' = NullSession
    /\ step' = "upload"
    /\ error' = NoError
    /\ mounted' = FALSE
    /\ pixiRef' = CleanupRef(pixiRef)
    /\ apps' = CleanupApps(pixiRef, apps)
    /\ requested' = [requested EXCEPT !.page = Absent]
    /\ lastEvent' = Event("unmount", NoApp, <<0, 0>>)
    /\ UNCHANGED <<layerVars, sourceVars, strategy, data, nextApp, zoomLevel,
                   clickPos, isLoading, viewportBounds, directVars, probeVars,
                   requests, pages, steps>>

\* The first half of App.handlePageChange, up to the await: a page button of
\* the viewer calls onPageChange(current_page - 1) or (current_page + 1) and
\* processPage is called; nothing is stored until it settles.
handlePageChangeRequest(page) ==
    /\ mounted
    /\ step = "results"
    /\ steps < MaxFlowSteps
    /\ page \in {data.page - 1, data.page + 1}
    /\ page \in 0..MaxPageIndex
    /\ requests' = requests \cup {[n |-> requested.n + 1, page |-> page]}
    /\ requested' = [n |-> requested.n + 1, page |-> page]
    /\ steps' = steps + 1
    /\ lastEvent' = Event("pagerequest", NoApp, <<0, 0>>)
    /\ UNCHANGED <<panelVars, strategy, mounted, data, pixiRef, apps, nextApp,
                   zoomLevel, clickPos, isLoading, viewportBounds, directVars,
                   probeVars, step, sessionData, pages>>

\* What processPage returns for a page.
ResponseFor(page, result) ==
    [page |-> page, images |-> TRUE, content |-> result.content,
     sf |-> result.sf, stats |-> page]

\* The second half of App.handlePageChange: processPage resolves and
\* setSessionData(prev => ({...prev, ...result})) runs, whatever App has done
\* since the request; the viewer shows the result if it is rendered.
handlePageChangeResolve(req, result) ==
    /\ req \in requests
    /\ requests' = requests \ {req}
    /\ IF mounted
       THEN /\ ShowResponse(ResponseFor(req.page, result))
            /\ UNCHANGED <<requested, pages>>
       ELSE /\ sessionData' = MergeSession(sessionData, ResponseFor(req.page, result))
            /\ lastEvent' = Event("page", NoApp, <<0, 0>>)
            /\ UNCHANGED <<panelVars, strategy, mounted, data, pixiRef, apps,
                           nextApp, zoomLevel, clickPos, isLoading, viewportBounds,
                           directVars, probeVars, step, requested, pages, steps>>

\* App.handleUpload up to the first await: the error is cleared and the
\* spinner replaces the upload page.
handleUpload ==
    /\ step = "upload"
    /\ steps < MaxFlowSteps
    /\ error' = NoError
    /\ step' = "processing"
    /\ steps' = steps + 1
    /\ lastEvent' = Event("upload", NoApp, <<0, 0>>)
    /\ UNCHANGED <<layerVars, sourceVars, strategy, mounted, data, pixiRef, apps,
                   nextApp, zoomLevel, clickPos, isLoading, viewportBounds,
                   directVars, probeVars, sessionData, requests, requested,
                   pages>>

\* App.handleUpload after uploadPdfs and processPage(session_id, 0) have
\* resolved: the session data is replaced, the step becomes 'results' and a
\* new viewer mounts on the first page with its initial state.
handleUploadResolve(result) ==
    /\ step = "processing"
    /\ LET d == SessionOf(result, TRUE)
       IN  /\ sessionData' = d
           /\ data' = d
           /\ IF strategy = "gpu"
              THEN /\ nextApp <= MaxApps
                   /\ apps' = [apps EXCEPT ![nextApp] = NewApp(d)]
                   /\ nextApp' = nextApp + 1
                   /\ UNCHANGED overlayImgs
              ELSE /\ overlayImgs' = FirstRender
                   /\ UNCHANGED <<apps, nextApp>>
    /\ step' = "results"
    /\ mounted' = TRUE
    /\ pixiRef' = NullRef
    /\ zoomLevel' = 100
    /\ clickPos' = NoClick
    /\ isLoading' = TRUE
    /\ viewportBounds' = DefaultBounds
    /\ transformState' = InitialTransform
    /\ imageLoaded' = FALSE
    /\ viewportBoundsRef' = DefaultBounds
    /\ miniMapBounds' = DefaultBounds
    /\ layers' = AllLayers
    /\ opacity' = DefaultOpacity
    /\ grayscaleMode' = FALSE
    /\ toggled' = NoToggle
    /\ lastEvent' = Event("uploaded", NoApp, <<0, 0>>)
    /\ UNCHANGED <<texture, texLoads, error, strategy, probeVars, requests,
                   requested, pages, steps>>

\* App.handleUpload when uploadPdfs or processPage rejects: the catch stores
\* the message and goes back to the upload page.
handleUploadReject ==
    /\ step = "processing"
    /\ error' = ProcessingFailed
    /\ step' = "upload"
    /\ lastEvent' = Event("uploadfail", NoApp, <<0, 0>>)
    /\ UNCHANGED <<layerVars, sourceVars, strategy, mounted, data, pixiRef, apps,
                   nextApp, zoomLevel, clickPos, isLoading, viewportBounds,
                   directVars, probeVars, sessionData, requests, requested,
                   pages, steps>>

\* ------------------------------------------------------------------------
\* The coordinate mapping of the three click handlers on one input
\* ------------------------------------------------------------------------
Strategies == {"gpu", "direct", "tiled"}
NoProbe == [mc |-> UnitTransform, p |-> <<0, 0>>, sf |-> R(1)]
NotMeasured == [s \in Strategies |-> NoClick]

ClickPosOf(s, mc, p, sf) ==
    CASE s = "gpu" -> PixiClickPos(mc, p, sf)
      [] s = "direct" -> DirectClickPos(WrapperStateOf(mc), p, sf)
      [] s = "tiled" -> TileClickPos(mc, p, sf)

\* The click handler of strategy s runs on the probe.
Measure(s) ==
    /\ strategy = "probe"
    /\ ~measured[s].set
    /\ measured' = [measured EXCEPT ![s] = ClickPosOf(s, probe.mc, probe.p, probe.sf)]
    /\ lastEvent' = [Event("click", NoApp, probe.p) EXCEPT !.measured = TRUE]
    /\ UNCHANGED <<panelVars, strategy, mounted, data, pixiRef, apps, nextApp, zoomLevel,
                   clickPos, isLoading, viewportBounds, directVars, probe, pages,
                   steps, appVars>>

\* ------------------------------------------------------------------------
\* Specifications
\* ------------------------------------------------------------------------

\* The viewer has mounted with the first page's data; a GPU viewer's init
\* effect has called initPixi, which stands at its first await, unless the
\* data has no images ("if (!containerRef.current || !imageUrls) return").
\* App after a successful upload: the results are shown and no page change
\* is in flight.
AppInit ==
    /\ step = "results"
    /\ sessionData = data
    /\ requests = {}
    /\ requested = NoRequest

InitData(strategies, sessions, first) ==
    /\ strategy \in strategies
    /\ mounted = TRUE
    /\ data \in sessions
    /\ pixiRef = NullRef
    /\ apps = IF strategy = "gpu" /\ data.images
              THEN [a \in AppIds |-> IF a = 1 THEN NewApp(data) ELSE NoAppRec]
              ELSE [a \in AppIds |-> NoAppRec]
    /\ nextApp = IF strategy = "gpu" /\ data.images THEN 2 ELSE 1
    /\ zoomLevel = 100
    /\ clickPos = NoClick
    /\ isLoading = TRUE
    /\ viewportBounds = DefaultBounds
    /\ transformState = InitialTransform
    /\ imageLoaded = FALSE
    /\ viewportBoundsRef = DefaultBounds
    /\ miniMapBounds = DefaultBounds
    /\ overlayImgs = IF strategy = "direct" /\ data.images THEN FirstRender
                     ELSE NoImgs
    /\ probe = NoProbe
    /\ measured = NotMeasured
    /\ pages = 0
    /\ steps = first
    /\ lastEvent = NoEvent
    /\ PanelInit
    /\ AppInit

InitAt(strategies, results, first) ==
    InitData(strategies, {SessionOf(r, TRUE) : r \in results}, first)

InitWith(strategies, results) == InitAt(strategies, results, 0)

InitTask ==
    \E a \in AppIds :
        \/ AppInitResolve(a)
        \/ AppInitReject(a)
        \/ BaseLoadResolve(a)
        \/ BaseLoadReject(a)
        \/ OverlayLoadResolve(a)
        \/ OverlayLoadReject(a)

\* One session of the GPU viewer and the gestures on it (the pointermoves
\* are those of a drag; SpecDrag has the others).
InitView == InitWith({"gpu"}, Results)

NextView ==
    \/ InitTask
    \/ \E a \in AppIds, dy \in WheelDeltas, p \in Points : Wheel(a, dy, p)
    \/ \E a \in AppIds, p \in Points : PointerDown(a, p)
    \/ \E a \in AppIds, p \in Points : apps[a].isDragging /\ PointerMove(a, p)
    \/ \E a \in AppIds, p \in Points : PointerUp(a, p)
    \/ \E a \in AppIds : PointerUpOutside(a)
    \/ handleZoomIn
    \/ handleZoomOut
    \/ handleZoomInToLimit
    \/ handleZoomOutToLimit
    \/ handleResetView
    \/ \E n \in MiniMapPoints : handleMiniMapNavigate(n[1], n[2])

SpecView == InitView /\ [][NextView]_vars

\* One gesture on a page whose loads all succeeded: pointer and wheel events
\* only, MaxDragSteps of them (the event counter starts below 0 by the
\* difference to MaxSteps).
InitDrag ==
    InitAt({"gpu"}, {r \in Results : r.content = <<720, 540>>},
           MaxSteps - MaxDragSteps)

LoadTask ==
    \E a \in AppIds :
        \/ AppInitResolve(a)
        \/ BaseLoadResolve(a)
        \/ OverlayLoadResolve(a)

NextDrag ==
    \/ LoadTask
    \/ \E a \in AppIds, dy \in WheelDeltas, p \in DragPoints : Wheel(a, dy, p)
    \/ \E a \in AppIds, p \in DragPoints : PointerDown(a, p)
    \/ \E a \in AppIds, p \in DragPoints : PointerMove(a, p)
    \/ \E a \in AppIds, p \in DragPoints : PointerUp(a, p)
    \/ \E a \in AppIds : PointerUpOutside(a)

SpecDrag == InitDrag /\ [][NextDrag]_vars

\* A viewer across page changes and unmount, with the loads of several pages
\* in flight at once.
SessionPoints == {<<440, 390>>}
PanTargets == {<<450, 400>>}

\* The result shown after a page change: the pages of a document alternate
\* between the two sizes.
NextResult ==
    CHOOSE r \in Results : r.content # data.content

InitSession ==
    InitWith({"gpu", "direct"}, {r \in Results : r.content = <<720, 540>>})

SessionInput == steps < MaxSessionSteps

NextSession ==
    \/ InitTask
    \/ PageChange(NextResult)
    \/ Unmount
    \/ \E a \in AppIds, p \in SessionPoints : SessionInput /\ PointerDown(a, p)
    \/ \E a \in AppIds, p \in SessionPoints : SessionInput /\ PointerUp(a, p)
    \/ SessionInput /\ handleZoomIn
    \/ handleImageLoad
    \/ \E from \in SessionPoints, to \in PanTargets :
          SessionInput /\ WrapperPan(from, to)
    \/ \E p \in SessionPoints : SessionInput /\ handleClick(p)

SpecSession == InitSession /\ [][NextSession]_vars

\* The GPU viewer's layer panel while and after one page loads.
InitLayers == InitWith({"gpu"}, {r \in Results : r.content = <<720, 540>>})

NextLayers ==
    \/ InitTask
    \/ \E k \in KeySet, v \in BOOLEAN : handleLayerToggle(k, v)
    \/ \E v \in OpacityValues : handleOpacityChange(v)
    \/ \E v \in BOOLEAN : handleGrayscaleToggle(v)
    \/ \E l \in texLoads : TextureLoadResolve(l)
    \/ \E l \in texLoads : TextureLoadReject(l)

SpecLayers == InitLayers /\ [][NextLayers]_vars

\* The checkboxes used where two of the three suffice.
ToggledKeys == {"red", "blue"}

\* The panel beside a view the zoom-in button changes; every image loads.
NextPanel ==
    \/ LoadTask
    \/ \E k \in ToggledKeys, v \in BOOLEAN : handleLayerToggle(k, v)
    \/ \E v \in OpacityValues : handleOpacityChange(v)
    \/ \E v \in BOOLEAN : handleGrayscaleToggle(v)
    \/ \E l \in texLoads : TextureLoadResolve(l)
    \/ \E l \in texLoads : TextureLoadReject(l)
    \/ handleZoomIn

SpecPanel == InitLayers /\ [][NextPanel]_vars

\* The session data of App across page-processing responses, around the
\* direct viewer.
InitApp == InitWith({"direct"}, Results)

NextApp ==
    \/ \E r \in Results, withStats \in BOOLEAN :
          handlePageChange(PageResponse(r, withStats))
    \/ handlePageChangeFail
    \/ handleImageLoad
    \/ \E from \in SessionPoints, to \in Points : WrapperPan(from, to)
    \/ \E p \in Points : handleClick(p)
    \/ \E k \in ToggledKeys, v \in BOOLEAN : ComparisonViewerLayerToggle(k, v)

SpecApp == InitApp /\ [][NextApp]_vars

\* A viewer whose session data may lack the images, at mount or after a page
\* change, with the loads of the page before in flight.
InitPlaceholder ==
    InitData({"gpu", "direct"},
             {SessionOf(r, i) : r \in {x \in Results : x.content = <<720, 540>>},
                                i \in BOOLEAN}, 0)

NextPlaceholder ==
    \/ InitTask
    \/ handlePageChange(PageResponse(NextResult, TRUE))
    \/ handlePageChange(ResponseWithoutImages(NextResult))
    \/ handleImageLoad
    \/ \E k \in KeySet, v \in BOOLEAN : ComparisonViewerLayerToggle(k, v)

SpecPlaceholder == InitPlaceholder /\ [][NextPlaceholder]_vars

\* The three click handlers on the same transform, point and scaling factor.
\* The transforms are ones the viewers reach: the fit of a page, and the fit
\* after the zoom-in button, alone or pressed to the limit, or the zoom-out
\* button pressed to the limit.
ProbeTransforms ==
    UNION {LET fit == FitTransform(r.content)
           IN  {fit, [fit EXCEPT !.scale = ZoomInScale(@)],
                [fit EXCEPT !.scale = MaxScale], [fit EXCEPT !.scale = MinScale]}
           : r \in Results}

InitProbe ==
    /\ strategy = "probe"
    /\ mounted = FALSE
    /\ data = [page |-> 0, images |-> TRUE, content |-> <<1, 1>>, sf |-> R(1),
               stats |-> 0]
    /\ pixiRef = NullRef
    /\ apps = [a \in AppIds |-> NoAppRec]
    /\ nextApp = 1
    /\ zoomLevel = 100
    /\ clickPos = NoClick
    /\ isLoading = TRUE
    /\ viewportBounds = DefaultBounds
    /\ transformState = InitialTransform
    /\ imageLoaded = FALSE
    /\ viewportBoundsRef = DefaultBounds
    /\ miniMapBounds = DefaultBounds
    /\ overlayImgs = NoImgs
    /\ probe \in [mc : ProbeTransforms, p : Points, sf : {r.sf : r \in Results}]
    /\ measured = NotMeasured
    /\ pages = 0
    /\ steps = 0
    /\ lastEvent = NoEvent
    /\ PanelInit
    /\ AppInit

NextProbe == \E s \in Strategies : Measure(s)

SpecProbe == InitProbe /\ [][NextProbe]_vars

\* ------------------------------------------------------------------------
\* Properties
\* ------------------------------------------------------------------------

\* screenToContent(p, transform) = (p - translate) / scale
ScreenToContent(p, t) ==
    <<QDiv(QSub(R(p[1]), t.x), t.scale), QDiv(QSub(R(p[2]), t.y), t.scale)>>

InRange(scale) == QLe(MinScale, scale) /\ QLe(scale, MaxScale)

\* The transform of the container the refs point at.
Displayed == apps[pixiRef.mainContainer].mc

\* z is an integer nearest to v.
IsNearestInt(z, v) == QLe(QAbs(QSub(R(z), v)), <<1, 2>>)

Dist2(p, q) == (p[1] - q[1]) * (p[1] - q[1]) + (p[2] - q[2]) * (p[2] - q[2])

\* C1 (zoom anchor invariance): after a wheel zoom at screen point p from a
\* transform whose scale lies in [0.1, 10], the content point under p is the
\* one that was under p before the zoom, also when the new scale was clamped.
C1_ZoomAnchorInvariance ==
    (lastEvent.type = "wheel" /\ InRange(lastEvent.before.scale))
        => ScreenToContent(lastEvent.p, Displayed)
             = ScreenToContent(lastEvent.p, lastEvent.before)

\* A wheel zoom from a scale within the limits has acted whose new scale was
\* clamped: it is a limit, and not the old scale times 0.9 or 1.1.
C1_Witness ==
    /\ lastEvent.type = "wheel"
    /\ InRange(lastEvent.before.scale)
    /\ Displayed.scale \in {MinScale, MaxScale}
    /\ QDiv(Displayed.scale, lastEvent.before.scale) \notin {WheelOut, WheelIn}

\* C2 (click/drag disambiguation): a pointerdown followed by a pointerup
\* takes a measurement exactly when the release point is less than 5 pixels
\* (Euclidean) from the drag origin.
C2_ClickDragDisambiguation ==
    lastEvent.type = "pointerup"
        => (lastEvent.measured
              <=> Dist2(apps[lastEvent.app].dragStart, lastEvent.p)
                     < ClickThreshold * ClickThreshold)

\* C3 (minimap rectangle bounds): with the scale within the limits, the
\* rectangle the minimap draws lies inside the unit square and is at least 5%
\* wide and high.
C3_MinimapRectBounds ==
    (pixiRef.mainContainer # NoApp /\ InRange(Displayed.scale))
        => LET st == ViewportStyle(viewportBounds)
           IN  /\ QLe(R(0), st.left)
               /\ QLe(R(0), st.top)
               /\ QLe(QAdd(st.left, st.width), R(100))
               /\ QLe(QAdd(st.top, st.height), R(100))
               /\ QLe(R(MinSize), st.width)
               /\ QLe(R(MinSize), st.height)

\* C4 (scale invariant): the scale of every container that shows a base image
\* lies within [0.1, 10].
C4_ScaleInvariant ==
    \A a \in AppIds :
        (apps[a].state = "live" /\ apps[a].base) => InRange(apps[a].mc.scale)

\* The viewer state the sessions share.
Shared ==
    <<pixiRef, {a \in AppIds : apps[a].canvas}, {a \in AppIds : apps[a].listeners},
      isLoading, zoomLevel, clickPos>>

\* C5 (stale-session discard): a resumption of an initPixi call that belongs
\* to an earlier page than the current one leaves the shared viewer state
\* (refs, attached canvases, registered listeners, loading flag, zoom level,
\* click position) unchanged.
C5_StaleSessionDiscard ==
    [][\A a \in AppIds :
          (apps[a].pc # "none" /\ apps[a].page # data.page
             /\ apps'[a].pc # apps[a].pc)
              => Shared' = Shared]_vars

\* C6 (scoped backend lifetime): at most one application has its canvas in
\* the document, and every application that is not destroyed belongs to the
\* mounted viewer's current page.
C6_ScopedBackendLifetime ==
    /\ Cardinality({a \in AppIds : apps[a].state = "live" /\ apps[a].canvas}) <= 1
    /\ \A a \in AppIds :
          apps[a].state = "live" => (mounted /\ apps[a].page = data.page)

\* C7 (page-change viewport reset): whatever zoom and pan preceded a page
\* change, the transform under which the new result is displayed is the fit
\* for the new content: the GPU viewer's initialisation for the new page ends
\* with the fit of the new content, and the direct viewer's wrapper is back at
\* its initial transform when the page changes.
C7_PageChangeViewportReset ==
    [][/\ \A a \in AppIds :
             (apps[a].pc # "ready" /\ apps'[a].pc = "ready"
                /\ apps[a].page = data.page /\ data.page > 0)
                 => apps'[a].mc = FitTransform(data.content)
       /\ (strategy = "direct" /\ data'.page # data.page)
             => transformState' = InitialTransform]_vars

\* C8 (page-change measurement clear): a page change leaves no measurement.
C8_PageChangeMeasurementClear ==
    [][data'.page # data.page => clickPos' = NoClick]_vars

\* C9 (backend-independent coordinate mapping): on the same transform, point
\* and scaling factor all strategies measure the same originalPoint.
C9_BackendIndependentMapping ==
    \A s1 \in Strategies, s2 \in Strategies :
        (measured[s1].set /\ measured[s2].set)
            => measured[s1].original = measured[s2].original

\* C10 (click measurement value): a release less than 5 pixels from the drag
\* origin takes a measurement whose originalPoint is, on each axis, an integer
\* nearest to ((p - translate) / scale) / scalingFactor.
C10_ClickMeasurementValue ==
    (/\ lastEvent.type = "pointerup"
     /\ pixiRef.mainContainer # NoApp
     /\ Dist2(apps[lastEvent.app].dragStart, lastEvent.p)
           < ClickThreshold * ClickThreshold)
        => LET c == ScreenToContent(lastEvent.p, Displayed)
           IN  /\ clickPos.set
               /\ IsNearestInt(clickPos.original[1], QDiv(c[1], data.sf))
               /\ IsNearestInt(clickPos.original[2], QDiv(c[2], data.sf))

\* With scaling factor 2 a click on content point (400, 300) measured
\* originalPoint (200, 150).
C10_Witness ==
    /\ lastEvent.type = "pointerup"
    /\ lastEvent.measured
    /\ pixiRef.mainContainer # NoApp
    /\ data.sf = R(2)
    /\ ScreenToContent(lastEvent.p, Displayed) = <<R(400), R(300)>>
    /\ clickPos.original = <<200, 150>>

\* originalPoint mapped back to the screen: multiply by the scaling factor,
\* multiply by the scale, add the translation.
Reprojected(original, t, sf) ==
    <<QAdd(QMul(QMul(R(original[1]), sf), t.scale), t.x),
      QAdd(QMul(QMul(R(original[2]), sf), t.scale), t.y)>>

\* The distance on each axis between the probed point and its round trip
\* through the GPU viewer's measurement.
RoundTripError ==
    LET back == Reprojected(measured["gpu"].original, probe.mc, probe.sf)
    IN  <<QAbs(QSub(back[1], R(probe.p[1]))), QAbs(QSub(back[2], R(probe.p[2])))>>

\* C11 as stated (coordinate round-trip): with the scale within the limits,
\* the measured originalPoint mapped back to the screen lies within 1 unit of
\* the clicked point on each axis.
C11_RoundTripWithinOne ==
    (measured["gpu"].set /\ InRange(probe.mc.scale))
        => /\ QLe(RoundTripError[1], R(1))
           /\ QLe(RoundTripError[2], R(1))

\* C11 as amended: with the scale within the limits, the measured
\* originalPoint mapped back to the screen lies within half a unit of the
\* original space, scalingFactor * scale / 2 screen units, of the clicked
\* point on each axis.
C11_RoundTripWithinHalfStep ==
    (measured["gpu"].set /\ InRange(probe.mc.scale))
        => LET half == QMul(QMul(probe.sf, probe.mc.scale), <<1, 2>>)
           IN  /\ QLe(RoundTripError[1], half)
               /\ QLe(RoundTripError[2], half)

\* A measurement at a scale within the limits whose round trip misses the
\* clicked point by more than 1 unit.
C11_Witness ==
    /\ measured["gpu"].set
    /\ InRange(probe.mc.scale)
    /\ QLt(R(1), RoundTripError[1])

\* The centre of the viewport: the screen below the header strip.
ViewportCentre ==
    <<Screen.width \div 2, HeaderH + (Screen.height - HeaderH) \div 2>>

\* C12 (minimap click recentring): after a minimap click at normalized point
\* n, handed on as the percentages 100 * n, the content point n * contentSize
\* lies at the centre of the viewport and the scale is unchanged.
C12_MinimapRecentring ==
    lastEvent.type = "minimap"
        => /\ Displayed.scale = lastEvent.before.scale
           /\ ScreenToContent(ViewportCentre, Displayed)
                = <<QDiv(R(lastEvent.p[1] * data.content[1]), R(100)),
                    QDiv(R(lastEvent.p[2] * data.content[2]), R(100))>>

\* No initPixi call stands at an await and no texture load is outstanding.
NoLoadInFlight ==
    /\ \A a \in AppIds :
          apps[a].pc \notin {"awaitInit", "awaitBase", "awaitRed", "awaitGreen",
                             "awaitBlue"}
    /\ texLoads = {}

\* C13 (layer toggle idempotence): with no load in flight, a layer switched
\* off and then on again with nothing else changed in between leaves the
\* composition it had before: the same visibility, alpha and z-order of every
\* layer.
C13_LayerToggleIdempotence ==
    (lastEvent.type = "toggle" /\ toggled.phase = "on" /\ NoLoadInFlight)
        => Composition = toggled.comp

\* C14 (wholesale SessionResult replacement): the session data holds no stats
\* but those the response for the current page supplied.
C14_WholesaleReplacement ==
    data.stats = Absent \/ data.stats = data.page

\* C15 (base-layer failure): once the backend initialisation or the base load
\* of an initPixi call has failed, loading has ended and the session shows an
\* error.
C15_BaseFailureSurfaces ==
    \A a \in AppIds :
        (lastEvent.type \in {"initfail", "basefail"} /\ lastEvent.app = a)
            => /\ ~isLoading
               /\ apps[a].pc # "ready"
               /\ error # NoError

\* C16 (overlay failure is local): a failed overlay load leaves the
\* initialisation running with its base layer and raises no error; whatever
\* subset of the overlays failed, the initialisation ends with the base
\* layer, the canvas, the listeners, loading ended, and every overlay that
\* loaded composited at its z-order and stored where the panel reaches it; and
\* a panel input sets the visibility and alpha of every loaded overlay.
C16_OverlayFailureLocal ==
    \A a \in AppIds :
        /\ (lastEvent.type = "overlayfail" /\ lastEvent.app = a)
              => /\ apps[a].pc \in {"awaitGreen", "awaitBlue", "ready"}
                 /\ apps[a].base
                 /\ error = NoError
        /\ apps[a].pc = "ready"
              => /\ apps[a].base /\ apps[a].canvas /\ apps[a].listeners
                 /\ ~isLoading
                 /\ error = NoError
                 /\ \A k \in KeySet :
                       apps[a].sprites[k].loaded
                          => /\ pixiRef.overlays[k] = a
                             /\ apps[a].sprites[k].zIndex = OverlayZ(k)
        /\ (lastEvent.type \in {"toggle", "opacity"} /\ pixiRef.mainContainer = a)
              => \A k \in KeySet :
                    apps[a].sprites[k].loaded
                       => /\ apps[a].sprites[k].visible = layers[k]
                          /\ apps[a].sprites[k].alpha = QDiv(R(opacity), R(100))

\* The red overlay failed, the green one loaded, the initialisation ended and
\* the panel has just switched the green overlay off.
C16_Witness ==
    \E a \in AppIds :
        /\ apps[a].pc = "ready"
        /\ ~apps[a].sprites["red"].loaded
        /\ apps[a].sprites["green"].loaded
        /\ lastEvent.type = "toggle"
        /\ ~layers["green"]
        /\ ~apps[a].sprites["green"].visible
        /\ apps[a].sprites["blue"].visible

\* C17 (failed source swap keeps the old source): the rejection of a load the
\* grayscale effect started leaves every base sprite on the source it
\* displayed.
C17_FailedSwapKeepsSource ==
    [][lastEvent'.type = "texturefail" => texture' = texture]_vars

\* A swap to grayscale succeeded and the swap back to colour has just failed:
\* the base sprite still displays the grayscale source.
C17_Witness ==
    /\ lastEvent.type = "texturefail"
    /\ pixiRef.baseSprite # NoApp
    /\ texture[pixiRef.baseSprite] = "baseGrayscale"
    /\ ~grayscaleMode

\* C18 (failed operations are no-ops): a rejected page-processing request
\* changes nothing but the error message: the session data with its current
\* page, the transform, the layer state and the measurement stay.
C18_FailedPageChangeNoOp ==
    [][lastEvent'.type = "pagefail"
          => /\ data' = data
             /\ transformState' = transformState
             /\ apps' = apps /\ pixiRef' = pixiRef
             /\ layers' = layers /\ opacity' = opacity
             /\ imageLoaded' = imageLoaded
             /\ clickPos' = clickPos
             /\ zoomLevel' = zoomLevel]_vars

\* A page-processing request has just failed on a panned viewer with a
\* measurement: the message is set, the page, pan and measurement are kept.
C18_Witness ==
    /\ lastEvent.type = "pagefail"
    /\ error = ProcessingFailed
    /\ data.page = 0
    /\ transformState # InitialTransform
    /\ clickPos.set

\* C19 (input is never blocked by loads): once the base layer of the
\* displayed application is decoded, its wheel and pointer listeners are
\* registered, whatever overlay loads are outstanding.
C19_InputNotBlockedByLoads ==
    \A a \in AppIds :
        (apps[a].state = "live" /\ apps[a].base /\ pixiRef.app = a)
            => apps[a].listeners

\* clamp(scale * f, 0.1, 10)
ClampScale(scale) == QMax(MinScale, QMin(MaxScale, scale))

\* zoom(T, f, p): scale' = clamp(scale * f), translate' = p - ((p - translate)
\* / scale) * scale'
ZoomAt(t, f, p) ==
    LET ns == ClampScale(QMul(t.scale, f))
    IN  [scale |-> ns,
         x |-> QSub(R(p[1]), QMul(QDiv(QSub(R(p[1]), t.x), t.scale), ns)),
         y |-> QSub(R(p[2]), QMul(QDiv(QSub(R(p[2]), t.y), t.scale), ns))]

\* C20 (wheel zoom result): a wheel event, while dragging or not, sets the
\* transform to zoom(T, f, pointer) with f = 0.9 for deltaY > 0 and f = 1.1
\* for deltaY < 0 and leaves the gesture state as it was; from scale 1 and
\* translate (0, 0), zooming in at (50, 50) gives scale 1.1 and translate
\* (-5, -5).
C20_WheelZoomResult ==
    /\ lastEvent.type = "wheel"
          => /\ Displayed = ZoomAt(lastEvent.before,
                                   IF lastEvent.deltaY > 0 THEN <<9, 10>>
                                   ELSE <<11, 10>>,
                                   lastEvent.p)
             /\ apps[lastEvent.app].isDragging = lastEvent.wasDragging
    /\ WheelZoom(UnitTransform, -100, <<50, 50>>)
          = [scale |-> <<11, 10>>, x |-> R(-5), y |-> R(-5)]

\* A wheel event has zoomed the view during a drag, and the drag goes on.
C20_Witness ==
    /\ lastEvent.type = "wheel"
    /\ lastEvent.wasDragging
    /\ apps[lastEvent.app].isDragging
    /\ Displayed.scale # lastEvent.before.scale

\* ------------------------------------------------------------------------
\* Gestures (SpecDrag)
\* ------------------------------------------------------------------------

\* The step is a pointermove handled by application a during a drag.
DragMoveStep(a) ==
    /\ lastEvent'.type = "pointermove" /\ lastEvent'.app = a
    /\ steps' = steps + 1
    /\ apps[a].isDragging
    /\ pixiRef.mainContainer # NoApp

\* C21: during one drag, wheel zooms between the pointermoves included, the
\* translation after each pointermove is the translation just before it plus
\* (currentPoint - previousPoint).  The previous point is where the pointer
\* was at the event before: the pointerdown, a pointermove or a wheel event
\* of the same drag (a wheel event carries the pointer's position).
C21_IncrementalPanning ==
    [][\A a \in AppIds :
          (/\ DragMoveStep(a)
           /\ lastEvent.app = a
           /\ lastEvent.type \in {"pointerdown", "pointermove", "wheel"})
          => /\ Displayed'.x =
                  QAdd(Displayed.x, R(lastEvent'.p[1] - lastEvent.p[1]))
             /\ Displayed'.y =
                  QAdd(Displayed.y, R(lastEvent'.p[2] - lastEvent.p[2]))]_vars

\* C22: a pointerdown records the translation and the point; each
\* pointermove of the drag sets the translation to the recorded translation
\* plus (currentPoint - dragOrigin), unclamped, and keeps the scale.
C22_FreePanning ==
    \A a \in AppIds :
       (lastEvent.app = a /\ pixiRef.mainContainer # NoApp) =>
          /\ lastEvent.type = "pointerdown" =>
                /\ apps[a].dragStart = lastEvent.p
                /\ apps[a].containerStart = <<Displayed.x, Displayed.y>>
                /\ Displayed = lastEvent.before
          /\ (lastEvent.type = "pointermove" /\ lastEvent.wasDragging) =>
                /\ Displayed.x =
                     QAdd(apps[a].containerStart[1],
                          R(lastEvent.p[1] - apps[a].dragStart[1]))
                /\ Displayed.y =
                     QAdd(apps[a].containerStart[2],
                          R(lastEvent.p[2] - apps[a].dragStart[2]))
                /\ Displayed.scale = lastEvent.before.scale

\* A pointermove of a drag has moved the content entirely off the canvas.
C22_Witness ==
    /\ lastEvent.type = "pointermove" /\ lastEvent.wasDragging
    /\ pixiRef.mainContainer # NoApp
    /\ QLe(R(Screen.width), Displayed.x)

\* C23: a pointermove changes the transform only while the state is
\* Dragging; a pointerdown enters Dragging, a pointerup or pointerupoutside
\* leaves it for Idle, and no other pointer or wheel event changes the state.
C23_GestureStateMachine ==
    [][\A a \in AppIds :
          (lastEvent'.app = a /\ steps' = steps + 1
             /\ pixiRef.mainContainer # NoApp) =>
             /\ (lastEvent'.type = "pointermove" /\ ~apps[a].isDragging) =>
                   Displayed' = Displayed
             /\ lastEvent'.type = "pointerdown" => apps'[a].isDragging
             /\ lastEvent'.type \in {"pointerup", "pointerupoutside"} =>
                   ~apps'[a].isDragging
             /\ lastEvent'.type \in {"pointermove", "wheel"} =>
                   apps'[a].isDragging = apps[a].isDragging]_vars

\* A pointermove after the release of a press, at another point.
C23_Witness ==
    \E a \in AppIds :
       /\ lastEvent.type = "pointermove" /\ lastEvent.app = a
       /\ ~lastEvent.wasDragging
       /\ apps[a].dragStart # <<0, 0>>
       /\ lastEvent.p # apps[a].dragStart

\* ------------------------------------------------------------------------
\* Fit to screen and the overview rectangle
\* ------------------------------------------------------------------------

\* Canvas sizes and content sizes the fit is evaluated on, beside those of
\* the sessions: wide, tall and small ones.
FitScreens == {Screen, [width |-> 1280, height |-> 360],
               [width |-> 320, height |-> 960]}
FitContents == {r.content : r \in Results} \cup {<<100, 2000>>, <<3000, 200>>}

\* The viewport of a canvas is the part below the header strip.
ViewportOf(screen) ==
    [width |-> screen.width, height |-> screen.height - HeaderH]

\* t fits the content into the viewport: the scale is
\* min(viewportWidth / contentWidth, viewportHeight / contentHeight) * 0.9
\* and the margins left and right, and above and below, are equal.
IsFit(t, screen, content) ==
    LET vp == ViewportOf(screen)
        left == t.x
        right == QSub(R(vp.width), QAdd(t.x, QMul(R(content[1]), t.scale)))
        top == QSub(t.y, R(HeaderH))
        bottom == QSub(R(screen.height), QAdd(t.y, QMul(R(content[2]), t.scale)))
    IN  /\ t.scale = QMul(QMin(QDiv(R(vp.width), R(content[1])),
                               QDiv(R(vp.height), R(content[2]))), <<9, 10>>)
        /\ left = right
        /\ top = bottom

\* The step that completed the initial load of the displayed application.
InitialFitDone ==
    /\ lastEvent.type \in {"overlay", "overlayfail"}
    /\ lastEvent.app # NoApp
    /\ apps[lastEvent.app].pc = "ready"
    /\ pixiRef.mainContainer = lastEvent.app

\* C24: after the initial fit and after the reset button the displayed
\* transform fits the content into the viewport (scale with the 0.9 margin,
\* equal margins on opposite sides); the fit does so for any viewport size
\* and content size.
C24_FitToScreen ==
    (InitialFitDone \/ lastEvent.type = "reset") =>
       /\ IsFit(Displayed, Screen, apps[pixiRef.mainContainer].content)
       /\ \A screen \in FitScreens, content \in FitContents :
             IsFit(FitTransformOn(screen, content), screen, content)

\* The reset button brought a zoomed or moved view back to the fit.
C24_Witness ==
    /\ lastEvent.type = "reset"
    /\ pixiRef.mainContainer # NoApp
    /\ lastEvent.before # Displayed
    /\ apps[pixiRef.mainContainer].pc = "ready"

\* The overview rectangle of a transform, in percent of the content: origin
\* (-translate / scale) / contentSize and extent (viewportSize / scale) /
\* contentSize on each axis, times 100.
OverviewRect(scale, tx, ty, vp, content) ==
    [x |-> QMul(QDiv(QDiv(QNeg(tx), scale), R(content[1])), R(100)),
     y |-> QMul(QDiv(QDiv(QNeg(ty), scale), R(content[2])), R(100)),
     width |-> QMul(QDiv(QDiv(R(vp.width), scale), R(content[1])), R(100)),
     height |-> QMul(QDiv(QDiv(R(vp.height), scale), R(content[2])), R(100))]

\* The clamping applied to the rectangle afterwards.
ClampRect(r) ==
    [x |-> QMax(R(0), r.x), y |-> QMax(R(0), r.y),
     width |-> QMin(R(100), r.width), height |-> QMin(R(100), r.height)]

\* The rectangle of a GPU container: its translation relative to the
\* viewport below the header strip.
OverviewRectOf(mc, content) ==
    OverviewRect(mc.scale, mc.x, QSub(mc.y, R(HeaderH)), ViewportOf(Screen),
                 content)

\* The events that change the transform of the GPU viewer.
TransformEvents ==
    {"wheel", "pointermove", "zoomin", "zoomout", "zoominmax", "zoomoutmin",
     "reset", "minimap"}

GpuTransformChanged ==
    /\ strategy = "gpu"
    /\ lastEvent.type \in TransformEvents
    /\ pixiRef.app # NoApp /\ pixiRef.mainContainer # NoApp
    /\ pixiRef.baseSprite # NoApp

\* C25: the rectangle computed from a transform has origin (-translate /
\* scale) / contentSize and extent (viewportSize / scale) / contentSize on
\* each axis before clamping, in the GPU viewer and in the direct viewer;
\* viewport 800x600, content 1000x800, scale 2, translate (-200, -100) gives
\* origin (0.1, 0.0625) and extent (0.4, 0.375).
C25_OverviewRectangle ==
    /\ GpuTransformChanged =>
          viewportBounds =
             ClampRect(OverviewRectOf(Displayed,
                                      apps[pixiRef.baseSprite].content))
    /\ (strategy = "direct" /\ lastEvent.type = "pan") =>
          DrawnByTen(viewportBoundsRef) =
             OverviewRect(transformState.scale, transformState.positionX,
                          transformState.positionY, Screen, data.content)
    /\ ViewportBoundsOf([scale |-> R(2), x |-> R(-200), y |-> R(HeaderH - 100)],
                        <<1000, 800>>)
          = [x |-> R(10), y |-> <<25, 4>>, width |-> R(40), height |-> <<75, 2>>]

\* C25 for the GPU viewer alone.
C25_GpuOverviewRectangle ==
    /\ GpuTransformChanged =>
          viewportBounds =
             ClampRect(OverviewRectOf(Displayed,
                                      apps[pixiRef.baseSprite].content))
    /\ ViewportBoundsOf([scale |-> R(2), x |-> R(-200), y |-> R(HeaderH - 100)],
                        <<1000, 800>>)
          = [x |-> R(10), y |-> <<25, 4>>, width |-> R(40), height |-> <<75, 2>>]

\* C26: after every operation that changes the transform, the rectangle the
\* minimap has been given is the one computed from the current transform.
C26_MinimapInSync ==
    /\ GpuTransformChanged =>
          viewportBounds =
             ViewportBoundsOf(Displayed, apps[pixiRef.baseSprite].content)
    /\ (strategy = "direct" /\ lastEvent.type = "pan"
          /\ transformState # InitialTransform) =>
          miniMapBounds = TransformEndBounds(transformState)

\* ------------------------------------------------------------------------
\* Layers
\* ------------------------------------------------------------------------

\* C27: switching a layer off keeps its loaded asset, and switching it on
\* again needs no new load, in each strategy: a sprite stored for a layer of
\* the GPU viewer stays loaded, and the direct viewer keeps the one image
\* element it created for each layer.
C27_TogglesNeverUnload ==
    /\ strategy = "gpu" =>
          \A k \in KeySet :
             pixiRef.overlays[k] # NoApp =>
                apps[pixiRef.overlays[k]].sprites[k].loaded
    /\ strategy = "direct" =>
          \A k \in KeySet :
             overlayImgs[k].present /\ overlayImgs[k].created = 1

\* The overlay sprite stored for layer k.
StoredSprite(k) == apps[pixiRef.overlays[k]].sprites[k]

\* C28: once the opacity has been set to v, in every later state every
\* loaded overlay that is switched on has alpha v / 100 and is shown, and
\* every loaded overlay that is switched off is not shown.
C28_SharedOpacity ==
    (strategy = "gpu" /\ opacity # DefaultOpacity) =>
       \A k \in KeySet :
          pixiRef.overlays[k] # NoApp =>
             IF layers[k]
             THEN /\ StoredSprite(k).visible
                  /\ StoredSprite(k).alpha = QDiv(R(opacity), R(100))
             ELSE ~StoredSprite(k).visible

\* The z-index of each layer.
LayerZ(k) == CASE k = "red" -> 1 [] k = "green" -> 2 [] k = "blue" -> 3

\* C29: in every state the loaded layers have z-index base = 0, red = 1,
\* green = 2, blue = 3, whichever loads failed and whatever the panel did.
C29_FixedZOrder ==
    \A a \in AppIds :
       /\ apps[a].base => apps[a].baseZ = 0
       /\ \A k \in KeySet :
             apps[a].sprites[k].loaded => apps[a].sprites[k].zIndex = LayerZ(k)

\* A page is loaded whose red overlay failed and whose blue overlay loaded,
\* and the panel has since switched a layer off and changed the opacity.
C29_Witness ==
    \E a \in AppIds :
       /\ apps[a].pc = "ready" /\ apps[a].base
       /\ ~apps[a].sprites["red"].loaded
       /\ apps[a].sprites["blue"].loaded
       /\ ~apps[a].sprites["blue"].visible
       /\ opacity # DefaultOpacity

\* ------------------------------------------------------------------------
\* Session data without images
\* ------------------------------------------------------------------------

\* C30: whenever the session data lacks the images, the viewer shows the
\* placeholder (no canvas, no image element of the view is in the document),
\* no backend is initialized (no application is stored or has its listeners
\* registered) and no layer is composited (no application that is alive holds
\* a base or overlay sprite).
C30_PlaceholderOnInvalidData ==
    ~data.images =>
       /\ \A a \in AppIds : ~apps[a].canvas
       /\ \A k \in KeySet : ~overlayImgs[k].present
       /\ ~imageLoaded
       /\ pixiRef = NullRef
       /\ \A a \in AppIds :
             apps[a].state = "live" =>
                /\ ~apps[a].listeners
                /\ ~apps[a].base
                /\ \A k \in KeySet : ~apps[a].sprites[k].loaded

\* ------------------------------------------------------------------------
\* The panel and the viewport
\* ------------------------------------------------------------------------

\* The events of the layer panel and of the loads it starts.
PanelEvents == {"toggle", "opacity", "grayscale", "texture", "texturefail"}

\* The backend: which applications exist, where their initialisation
\* stands, which one is stored, and the loading flag.
Backend ==
    <<nextApp, pixiRef.app, pixiRef.mainContainer, isLoading,
      [a \in AppIds |-> <<apps[a].state, apps[a].pc, apps[a].canvas,
                          apps[a].listeners>>]>>

C32_OverlaysAttachWithCurrentSettings ==
    (strategy = "gpu" /\ NoLoadInFlight) =>
       \A k \in KeySet :
          pixiRef.overlays[k] # NoApp =>
             /\ StoredSprite(k).visible = layers[k]
             /\ StoredSprite(k).alpha = QDiv(R(opacity), R(100))

\* ------------------------------------------------------------------------
\* Grayscale swaps whose loads all succeed
\* ------------------------------------------------------------------------

NextSwap ==
    \/ LoadTask
    \/ \E v \in BOOLEAN : handleGrayscaleToggle(v)
    \/ \E l \in texLoads : TextureLoadResolve(l)

SpecSwap == InitLayers /\ [][NextSwap]_vars

\* The base source the grayscale mode selects.
SelectedSource == IF grayscaleMode THEN "baseGrayscale" ELSE "base"

\* C33: after any sequence of grayscale switches, once every load has
\* completed, in whatever order, the base sprite shows the source the
\* current grayscale mode selects.
C33_SwapsSettleOnCurrentMode ==
    (NoLoadInFlight /\ pixiRef.baseSprite # NoApp) =>
        texture[pixiRef.baseSprite] = SelectedSource

\* ------------------------------------------------------------------------
\* App: upload, page requests in flight and New Comparison
\* ------------------------------------------------------------------------

\* App as constructed: the upload page, no session data, no viewer.
InitFlow ==
    /\ strategy = "direct"
    /\ mounted = FALSE
    /\ data = NullSession
    /\ pixiRef = NullRef
    /\ apps = [a \in AppIds |-> NoAppRec]
    /\ nextApp = 1
    /\ zoomLevel = 100
    /\ clickPos = NoClick
    /\ isLoading = TRUE
    /\ viewportBounds = DefaultBounds
    /\ transformState = InitialTransform
    /\ imageLoaded = FALSE
    /\ viewportBoundsRef = DefaultBounds
    /\ miniMapBounds = DefaultBounds
    /\ overlayImgs = NoImgs
    /\ probe = NoProbe
    /\ measured = NotMeasured
    /\ pages = 0
    /\ steps = 0
    /\ lastEvent = NoEvent
    /\ PanelInit
    /\ step = "upload"
    /\ sessionData = NullSession
    /\ requests = {}
    /\ requested = NoRequest

NextFlow ==
    \/ handleUpload
    \/ \E r \in Results : handleUploadResolve(r)
    \/ handleUploadReject
    \/ \E page \in 0..MaxPageIndex : handlePageChangeRequest(page)
    \/ \E req \in requests, r \in Results : handlePageChangeResolve(req, r)
    \/ Unmount
    \/ handleImageLoad

SpecFlow == InitFlow /\ [][NextFlow]_vars

\* C34: if several page changes are requested before their responses
\* arrive, then once every response has arrived the page displayed is the
\* one requested last, whatever the order of arrival.
C34_LastRequestedPageWins ==
    (mounted /\ requests = {} /\ requested.page # Absent)
        => data.page = requested.page

\* C35: the session data is non-null exactly when the step is 'results'.
C35_SessionDataMatchesStep ==
    (sessionData # NullSession) <=> (step = "results")

\* ------------------------------------------------------------------------
\* The zoom level shown
\* ------------------------------------------------------------------------

\* initPixi has run to its end for the stored container.
InitCompleted ==
    /\ strategy = "gpu"
    /\ mounted
    /\ pixiRef.mainContainer # NoApp
    /\ apps[pixiRef.mainContainer].pc = "ready"

\* C36: in the GPU viewer, once initialization has completed, the zoom level
\* shown equals round(scale * 100) after every operation: wheel zoom,
\* zoom-in and zoom-out buttons, reset, drag and minimap navigation.
C36_ZoomLevelConsistent ==
    InitCompleted => zoomLevel = MathRound(QMul(Displayed.scale, R(100)))

====
